---- MODULE Spec2Model ----
(***************************************************************************)
(* The resumable crawl engine of get-arXiv (src/main.py): fetch_text with  *)
(* its retry schedule, the page cache (load_api_page), atomic persistence  *)
(* (safe_write_text) and the page loop of download_author.                 *)
(*                                                                         *)
(* Text is a sequence of one-character strings.  Seconds are integers.     *)
(***************************************************************************)
EXTENDS Integers, Sequences, FiniteSets, TLC

\* ------------------------------------------------------------------ text

\* Python's None where a text is expected: no text is made of it
None == <<"None">>

UpperChars == <<"A", "B", "C", "D", "E", "F", "G", "H", "I", "J", "K", "L", "M",
                "N", "O", "P", "Q", "R", "S", "T", "U", "V", "W", "X", "Y", "Z">>

LowerChars == <<"a", "b", "c", "d", "e", "f", "g", "h", "i", "j", "k", "l", "m",
                "n", "o", "p", "q", "r", "s", "t", "u", "v", "w", "x", "y", "z">>

Range(s) == {s[i] : i \in 1..Len(s)}

\* the character class [a-zA-Z] of normalize_tokens
IsAlpha(c) == c \in Range(UpperChars) \cup Range(LowerChars)

\* str.lower() on one character
LowerChar(c) ==
    IF c \in Range(UpperChars)
    THEN LowerChars[CHOOSE i \in 1..Len(UpperChars) : UpperChars[i] = c]
    ELSE c

\* str.startswith
StartsWith(s, p) == Len(p) <= Len(s) /\ SubSeq(s, 1, Len(p)) = p

Whitespace == {" "}

\* str.strip()
RECURSIVE Strip(_)
Strip(s) ==
    IF s = <<>> THEN s
    ELSE IF s[1] \in Whitespace THEN Strip(Tail(s))
    ELSE IF s[Len(s)] \in Whitespace THEN Strip(SubSeq(s, 1, Len(s) - 1))
    ELSE s

\* the index of the first occurrence of p in s, 0 when there is none
FindFirst(s, p) ==
    LET hits == {i \in 1..(Len(s) - Len(p) + 1) : SubSeq(s, i, i + Len(p) - 1) = p}
    IN  IF hits = {} THEN 0 ELSE CHOOSE i \in hits : \A j \in hits : i <= j

\* a split that takes the piece after the first boundary for the last
SplitAfterFirst(s, p) ==
    LET i == FindFirst(s, p)
    IN  IF i = 0 THEN s ELSE SubSeq(s, i + Len(p), Len(s))

\* value.split(p)[-1]: the text after the last piece boundary, cut left to right
RECURSIVE SplitLast(_, _)
SplitLast(s, p) ==
    LET i == FindFirst(s, p)
    IN  IF i = 0 THEN s ELSE SplitLast(SubSeq(s, i + Len(p), Len(s)), p)

AbsMarker == <<"/", "a", "b", "s", "/">>

\* re.sub(r"[^a-zA-Z]+", " ", value).strip().lower().split(): the maximal runs of
\* letters of value, lowercased
RECURSIVE TokensFrom(_, _, _)
TokensFrom(s, cur, acc) ==
    IF s = <<>>
    THEN IF cur = <<>> THEN acc ELSE Append(acc, cur)
    ELSE IF IsAlpha(s[1])
         THEN TokensFrom(Tail(s), Append(cur, LowerChar(s[1])), acc)
         ELSE TokensFrom(Tail(s), <<>>, IF cur = <<>> THEN acc ELSE Append(acc, cur))

normalize_tokens(value) == TokensFrom(value, <<>>, <<>>)

\* a given-name test that takes the whole given name only
GivenOkExact(given, first) == given = first

\* the given-name test of author_matches (main.py lines 226 and 231)
GivenOk(given, first) ==
    given = first \/ StartsWith(given, first) \/ given = <<first[1]>>

\* a matcher that takes the last name for found when the name's last token begins
\* with it
NameMatchesByPrefix(first_tokens, last_tokens, name) ==
    LET tokens == normalize_tokens(name)
        n      == Len(tokens)
    IN  /\ n >= 2
        /\ StartsWith(tokens[n], last_tokens[1])
        /\ GivenOk(tokens[1], first_tokens[1])

\* one pass of the for loop of author_matches over one listed name
NameMatches(first_tokens, last_tokens, name) ==
    LET tokens == normalize_tokens(name)
        n      == Len(tokens)
        k      == Len(last_tokens)
    IN  /\ n >= k + 1
        /\ \/ SubSeq(tokens, n - k + 1, n) = last_tokens
              /\ GivenOk(tokens[1], first_tokens[1])
           \/ SubSeq(tokens, 1, k) = last_tokens
              /\ n > k
              /\ GivenOk(tokens[k + 1], first_tokens[1])

author_matches(first_name, last_name, author_names) ==
    LET first_tokens == normalize_tokens(first_name)
        last_tokens  == normalize_tokens(last_name)
    IN  /\ first_tokens # <<>>
        /\ last_tokens # <<>>
        /\ \E i \in 1..Len(author_names) :
              NameMatches(first_tokens, last_tokens, author_names[i])

\* author_name_matches_target of build_papers_csv_first_author_all.py: one name,
\* and the first of the two cases that applies decides
author_name_matches_target(target_first, target_last, full_name) ==
    LET first_tokens == normalize_tokens(target_first)
        last_tokens  == normalize_tokens(target_last)
        tokens       == normalize_tokens(full_name)
        n            == Len(tokens)
        k            == Len(last_tokens)
    IN  IF first_tokens = <<>> \/ last_tokens = <<>> \/ n < k + 1
        THEN FALSE
        ELSE IF SubSeq(tokens, n - k + 1, n) = last_tokens
             THEN GivenOk(tokens[1], first_tokens[1])
             ELSE IF SubSeq(tokens, 1, k) = last_tokens /\ n > k
                  THEN GivenOk(tokens[k + 1], first_tokens[1])
                  ELSE FALSE

\* is_david_silver of build_papers_csv_silver_first_author.py
is_david_silver(name) ==
    LET tokens      == normalize_tokens(name)
        n           == Len(tokens)
        first       == <<"d", "a", "v", "i", "d">>
        last_tokens == << <<"s", "i", "l", "v", "e", "r">> >>
        k           == Len(last_tokens)
    IN  IF n < 2
        THEN FALSE
        ELSE IF SubSeq(tokens, n - k + 1, n) = last_tokens
             THEN GivenOk(tokens[1], first)
             ELSE IF SubSeq(tokens, 1, k) = last_tokens /\ n > k
                  THEN GivenOk(tokens[k + 1], first)
                  ELSE FALSE

\* arxiv_id.replace("/", "_")
sanitize_id(arxiv_id) ==
    [i \in 1..Len(arxiv_id) |-> IF arxiv_id[i] = "/" THEN "_" ELSE arxiv_id[i]]

\* ------------------------------------------------------- program constants

PAGE_SIZE == 50

RETRY_DELAYS == <<5, 15, 30>>

DEFAULT_MAX_REQUEST_SECONDS == 45

\* the windows of the sleeps after a page and after a document, in tenths of a
\* second (4.0 to 8.0 and 1.1 to 3.3 seconds)
API_SLEEP_MIN == 40

API_SLEEP_MAX == 80

HTML_SLEEP_MIN == 11

HTML_SLEEP_MAX == 33

\* ------------------------------------------------------------ feed parsing

Digits == <<"0", "1", "2", "3", "4", "5", "6", "7", "8", "9">>

IsDigit(c) == c \in Range(Digits)

DigitValue(c) == (CHOOSE i \in 1..Len(Digits) : Digits[i] = c) - 1

RECURSIVE DecimalValue(_, _)
DecimalValue(s, acc) ==
    IF s = <<>> THEN acc ELSE DecimalValue(Tail(s), 10 * acc + DigitValue(s[1]))

\* int(text.strip()) of parse_api_feed; ValueError is the record with ok FALSE
ParseInt(text) ==
    LET t      == Strip(text)
        signed == t # <<>> /\ t[1] \in {"-", "+"}
        body   == IF signed THEN Tail(t) ELSE t
    IN  IF body = <<>> \/ \E i \in 1..Len(body) : ~IsDigit(body[i])
        THEN [ok |-> FALSE, value |-> 0]
        ELSE [ok |-> TRUE,
              value |-> IF signed /\ t[1] = "-"
                        THEN 0 - DecimalValue(body, 0)
                        ELSE DecimalValue(body, 0)]

\* A response body is a record: kind "xml" (a well-formed feed with the text of its
\* opensearch:totalResults element and its atom:entry elements), "garbled" (not
\* empty, not well-formed), "blank" (zero length) or "html" (a document page).
\* A file or a text in memory is a body and how many of its chunks are present.
Chunks == 2

Xml(total, entries) == [kind |-> "xml", total |-> total, entries |-> entries, id |-> <<>>]

Garbled == [kind |-> "garbled", total |-> None, entries |-> <<>>, id |-> <<>>]

Blank == [kind |-> "blank", total |-> None, entries |-> <<>>, id |-> <<>>]

Html(arxiv_id) == [kind |-> "html", total |-> None, entries |-> <<>>, id |-> arxiv_id]

Size(body) == IF body.kind = "blank" THEN 0 ELSE Chunks

Complete(text) == text.bytes = Size(text.body)

FullText(body) == [exists |-> TRUE, body |-> body, bytes |-> Size(body)]

\* a name under which the directory holds nothing
NoFile == [exists |-> FALSE, body |-> Blank, bytes |-> 0]

\* lines 131-137: the declared total of a parsed feed
FeedTotal(total_text) ==
    IF total_text = None \/ total_text = <<>>
    THEN 0
    ELSE ParseInt(total_text).value

\* lines 141-154: one atom:entry, as the Entry it yields
FeedEntry(raw) ==
    LET value == Strip(raw.id)
    IN  [arxiv_id |-> IF FindFirst(value, AbsMarker) # 0
                      THEN SplitLast(value, AbsMarker)
                      ELSE value,
         authors  |-> LET named == {i \in 1..Len(raw.authors) :
                                       raw.authors[i] # None /\ raw.authors[i] # <<>>}
                          Pick[i \in 0..Len(raw.authors)] ==
                              IF i = 0 THEN <<>>
                              ELSE IF i \in named
                                   THEN Append(Pick[i - 1], Strip(raw.authors[i]))
                                   ELSE Pick[i - 1]
                      IN  Pick[Len(raw.authors)]]

RECURSIVE FeedEntries(_)
FeedEntries(raws) ==
    IF raws = <<>> THEN <<>>
    ELSE IF raws[1].id = None \/ raws[1].id = <<>>
         THEN FeedEntries(Tail(raws))
         ELSE <<FeedEntry(raws[1])>> \o FeedEntries(Tail(raws))

\* VERSION_RE.sub("", arxiv_id) with VERSION_RE = v\d+$: the text without the "v" and
\* the digits it ends with, if it ends so
StripVersion(arxiv_id) ==
    LET vs == {i \in 1..Len(arxiv_id) : arxiv_id[i] = "v"}
        p  == IF vs = {} THEN 0 ELSE CHOOSE i \in vs : \A j \in vs : j <= i
    IN  IF p # 0 /\ p < Len(arxiv_id) /\ \A i \in (p + 1)..Len(arxiv_id) : IsDigit(arxiv_id[i])
        THEN SubSeq(arxiv_id, 1, p - 1)
        ELSE arxiv_id

\* entry_id.split("/abs/", 1)[1]: the text after the first "/abs/"
SplitFirst(s, p) ==
    LET i == FindFirst(s, p)
    IN  IF i = 0 THEN s ELSE SubSeq(s, i + Len(p), Len(s))

PdfPrefix == <<"h", "t", "t", "p", "s", ":", "/", "/", "a", "r", "x", "i", "v", ".", "o",
               "r", "g", "/", "p", "d", "f", "/">>

PdfSuffix == <<".", "p", "d", "f">>

\* canonical_pdf_url_from_entry of the index builders (build_papers_csv.py lines
\* 44-59), of an entry whose atom:id text is entry_id (<<>> when it has none)
canonical_pdf_url_from_entry(entry_id) ==
    LET stripped == Strip(entry_id)
        arxiv_id == IF FindFirst(stripped, AbsMarker) # 0
                    THEN Strip(SplitFirst(stripped, AbsMarker))
                    ELSE Strip(stripped)
    IN  IF stripped = <<>> THEN None
        ELSE IF arxiv_id = <<>> THEN None
        ELSE PdfPrefix \o StripVersion(arxiv_id) \o PdfSuffix

\* parse_api_feed: ok FALSE is ET.ParseError (a text that is not a whole
\* well-formed document)
parse_api_feed(xml_text) ==
    IF xml_text.body.kind = "xml" /\ Complete(xml_text)
    THEN [ok |-> TRUE,
          total |-> FeedTotal(xml_text.body.total),
          entries |-> FeedEntries(xml_text.body.entries)]
    ELSE [ok |-> FALSE, total |-> 0, entries |-> <<>>]

\* a load_api_page that finds nothing stored
load_api_page_blind(file, read_ok) == [ok |-> FALSE, total |-> 0, entries |-> <<>>]

\* a load_api_page that takes a text that does not parse for a feed without entries
load_api_page_lenient(file, read_ok) ==
    IF ~file.exists \/ file.bytes = 0 THEN [ok |-> FALSE, total |-> 0, entries |-> <<>>]
    ELSE IF ~read_ok THEN [ok |-> FALSE, total |-> 0, entries |-> <<>>]
    ELSE IF parse_api_feed(file).ok THEN parse_api_feed(file)
    ELSE [ok |-> TRUE, total |-> 0, entries |-> <<>>]

\* load_api_page: ok FALSE (None) for a missing or zero-size file, a read that
\* raises OSError (read_ok FALSE) or a text that does not parse
load_api_page(file, read_ok) ==
    IF ~file.exists \/ file.bytes = 0 THEN [ok |-> FALSE, total |-> 0, entries |-> <<>>]
    ELSE IF ~read_ok THEN [ok |-> FALSE, total |-> 0, entries |-> <<>>]
    ELSE parse_api_feed(file)

\* build_api_url: the query parameters that vary
build_api_url(start_offset, max_results) ==
    [kind |-> "api", start |-> start_offset, max_results |-> max_results, id |-> <<>>]

\* line 350
abs_url(arxiv_id) == [kind |-> "abs", start |-> 0, max_results |-> 0, id |-> arxiv_id]


\* ------------------------------------------------------------ the inputs

\* the tracked author
FirstName == <<"A", "l">>

LastName == <<"N", "g">>

UrlA == <<"u", "/", "a", "b", "s", "/", "a", "v", "1">>

UrlB == <<" ", "u", "/", "a", "b", "s", "/", "b", " ">>

UrlQ == <<"u", "/", "a", "b", "s", "/", "q", "/", "7">>

\* atom:entry elements: listed under the tracked author or not, with or without
\* an atom:id
EntryA == [id |-> UrlA, authors |-> << <<"A", "l", " ", "N", "g">> >>]

EntryB == [id |-> UrlB, authors |-> << <<"B", "o", " ", "N", "g", "o">>, None >>]

EntryQ == [id |-> UrlQ,
           authors |-> << <<"B", "o", " ", "N", "g", "o">>,
                          <<"N", "g", ",", " ", "A", ".">> >>]

EntryNoId == [id |-> None, authors |-> << <<"A", "l", " ", "N", "g">> >>]

\* what the server holds, page by page; a later page repeats an entry of the page
\* before it where the feed drifted during pagination
Drifted == << <<EntryA, EntryB>>, <<EntryB, EntryQ>>, <<EntryQ>> >>

Holed == << <<EntryA>>, <<>>, <<EntryB>> >>

Repeated == << <<EntryNoId, EntryA, EntryA>> >>

Short == << <<EntryB>>, <<EntryA>>, <<>> >>

Listings == {Drifted, Holed, Repeated, Short, << >>}

\* the text of opensearch:totalResults on the pages after the first
LaterTotalText == <<"7">>

\* the feeds: the text of opensearch:totalResults on the first page (absent, not a
\* number, 0, or a count of 1, 2 or 3 pages and more) and the listing
OnePageFeeds ==
    { [total |-> <<"5", "0">>, pages |-> Repeated],
      [total |-> <<"x">>, pages |-> Repeated],
      [total |-> <<"0">>, pages |-> << >>] }

TwoPageFeeds ==
    { [total |-> <<" ", "5", "1">>, pages |-> Drifted],
      [total |-> <<"1", "0", "0">>, pages |-> Short],
      [total |-> None, pages |-> Holed] }

LongFeeds ==
    { [total |-> <<"1", "2", "0">>, pages |-> Drifted],
      [total |-> <<"1", "2", "0">>, pages |-> Holed],
      [total |-> <<"1", "2", "0">>, pages |-> Short],
      [total |-> <<"2", "0", "0">>, pages |-> Drifted],
      [total |-> <<"0">>, pages |-> Short] }

Feeds == OnePageFeeds \cup TwoPageFeeds \cup LongFeeds

\* the arXiv ids and the document names the listings can give
AllEntries == UNION {UNION {Range(l[i]) : i \in 1..Len(l)} : l \in Listings}

ArxivIds == {FeedEntry(e).arxiv_id : e \in {r \in AllEntries : r.id # None}}

DocNames == {sanitize_id(a) : a \in ArxivIds}

LongestListing == CHOOSE n \in {Len(l) : l \in Listings} : \A l \in Listings : Len(l) <= n

PageIndices == 1..(LongestListing + 1)

\* the body the server holds for a request
ServerBody(f, u) ==
    IF u.kind = "abs" THEN Html(u.id)
    ELSE LET i    == (u.start \div PAGE_SIZE) + 1
             page == IF u.start % PAGE_SIZE = 0 /\ i <= Len(f.pages) THEN f.pages[i]
                     ELSE <<>>
             n    == IF Len(page) <= u.max_results THEN Len(page) ELSE u.max_results
         IN  Xml(IF i = 1 THEN f.total ELSE LaterTotalText, SubSeq(page, 1, n))

\* one attempt's outcome: status 0 is a transport error (no response)
Statuses == {0, 200, 304, 404, 503}

\* what a 200 response carries: the server's body, a damaged one or nothing
Payloads == {"good", "garbled", "blank"}

\* how long one attempt can last, in seconds
AttemptSeconds == {1, 30, DEFAULT_MAX_REQUEST_SECONDS + 1}

MaxRetries == 1

\* how many times the crawl of the author is run over the same directories
MaxRuns == 2

\* the retry schedules a caller passes
RetrySchedule(n) == SubSeq(RETRY_DELAYS, 1, n)

\* what callers pass: retry_delays, max_request_seconds, max_total_seconds (0 is
\* None) and the two windows (min, max), which a caller may pass in either order
Plain == [delays |-> RetrySchedule(0), request |-> 0, total |-> 0,
          api_sleep |-> <<API_SLEEP_MIN, API_SLEEP_MAX>>,
          html_sleep |-> <<HTML_SLEEP_MIN, HTML_SLEEP_MAX>>]

Retrying == [delays |-> RetrySchedule(MaxRetries),
             request |-> DEFAULT_MAX_REQUEST_SECONDS, total |-> 0,
             api_sleep |-> <<API_SLEEP_MIN, API_SLEEP_MIN>>,
             html_sleep |-> <<HTML_SLEEP_MAX, HTML_SLEEP_MAX>>]

Timed == [delays |-> RetrySchedule(0), request |-> 0, total |-> 60,
          api_sleep |-> <<API_SLEEP_MAX, API_SLEEP_MIN>>,
          html_sleep |-> <<HTML_SLEEP_MAX, HTML_SLEEP_MIN>>]

\* the crawls: a caller and the feed the server holds for the author
Crawls ==
    ({Plain} \X Feeds) \cup ({Timed} \X TwoPageFeeds) \cup ({Retrying} \X OnePageFeeds)


\* ------------------------------------------------------------- the state

VARIABLES
    feed,                 \* what the server holds (fixed)
    retry_delays,         \* the caller's retry schedule (fixed)
    max_request_seconds,  \* 0 is None
    max_total_seconds,    \* 0 is None
    api_sleep,            \* <<api_sleep_min, api_sleep_max>> (fixed)
    html_sleep,           \* <<html_sleep_min, html_sleep_max>> (fixed)
    api_dir,              \* page index -> the file page-<i>.xml
    api_tmp,              \* page index -> the file page-<i>.xml.tmp
    html_dir,             \* sanitized id -> the file <id>.html
    html_tmp,             \* sanitized id -> the file <id>.html.tmp
    runs,                 \* how many times download_author was called
    pc,                   \* where the process stands
    start,
    api_pages,
    total_results,
    seen_ids,
    matched_count,
    api_fetched,
    page_total,
    entries,              \* the entries of the page in hand
    idx,                  \* the position of the for loop over entries
    caller,               \* who called fetch_text: "page", "doc" or "probe"
    body,                 \* the text fetch_text returned
    url,                  \* the url of the request in hand
    attempt,
    last_error,
    request_elapsed,      \* seconds since request_start
    over_total,           \* whether more than max_total_seconds passed since start_time
    raised,               \* the exception that ended the call
    \* what happened, recorded for the properties
    tries,                \* the attempts of the fetch_text call in hand
    slept,                \* the delays that call slept, in order
    longest,              \* the longest single attempt of that call, in seconds
    last_status,          \* the status of the latest attempt
    nap,                  \* the sleep the step before made, if it made one
    unrested,             \* whose request went out last with no sleep since: "none" if none
    read_errors,          \* the page indices whose read raised OSError this run
    wire,                 \* the text of the latest response, as the server sent it
    busy,                 \* the seconds the attempts of the call in hand took together
    killed_at,            \* where the process stood when it was last killed
    cached_at_start,      \* the page indices load_api_page would accept, at the run's start
    net_pages,            \* page index -> calls of fetch_text for it this run
    match_checks,         \* arxiv id -> author_matches calls this run
    doc_requests,         \* arxiv id -> calls of fetch_text for its document this run
    \* one entry of a stored page, as the crawl and the index builders read it
    target,               \* the tracked author: first and last name
    full_name,            \* the name of an author of the entry
    verdict,              \* what each matcher says of full_name
    entry_id,             \* the text of the entry's atom:id
    ids,                  \* what the crawl and the builders make of entry_id
    \* a batch driver: the for loop over the authors of the registry
    driver,               \* "main" (batch mode of main.py), "test_loop" or "none"
    stop_on_fail,         \* STOP_ON_FAIL of test_loop.py
    n_authors,            \* len(authors)
    author_index,         \* the position of the for loop over authors
    reports,              \* what became of each author the loop has dealt with
    \* the registry of tracked authors (authors.csv)
    csv_file,             \* the file: whether it exists and its rows, each a list of fields
    appends,              \* the pairs append_author_to_csv was called with, in order
    \* an index builder (build_papers_csv*.py)
    builder,              \* which builder runs: "all", "first_author_all" or "none"
    xml_files,            \* the cached page files, in the order the builder reads them
    rows,                 \* the rows of the export
    parse_errors          \* how many page files the builder skipped

config == <<feed, retry_delays, max_request_seconds, max_total_seconds, api_sleep,
            html_sleep>>

disk == <<api_dir, api_tmp, html_dir, html_tmp>>

loop_locals == <<start, api_pages, total_results, seen_ids, matched_count, api_fetched,
                 page_total, entries, idx>>

\* the request in hand: the frame of fetch_text and what is recorded of it
frame == <<url, attempt, last_error, request_elapsed, tries, slept, longest, last_status,
           wire, busy>>

history == <<killed_at, cached_at_start, net_pages, match_checks, doc_requests>>

reading == <<target, full_name, verdict, entry_id, ids>>

batch == <<driver, stop_on_fail, n_authors, author_index, reports>>

registry == <<csv_file, appends>>

export == <<builder, xml_files, rows, parse_errors>>

offline == <<registry, export>>

vars == <<config, disk, runs, pc, loop_locals, caller, body, frame, over_total, raised,
          nap, unrested, read_errors, history, reading, batch, offline>>

NoNap == [kind |-> "none", tenths |-> 0]

\* rand_sleep: the delays random.uniform can give, by the two ends of the window
rand_sleep(min_seconds, max_seconds) ==
    IF max_seconds < min_seconds
    THEN {max_seconds, min_seconds}
    ELSE {min_seconds, max_seconds}

NoError == 0 - 1

ParseErrorCode == 0 - 2

NoException == [type |-> "none", at |-> "none", cause |-> NoError]

\* a raise that lets the loop go on after a budget was exceeded
RaiseThenGoesOn(exc) ==
    /\ raised' = exc
    /\ pc' = IF exc.type = "SlowDownloadError" THEN "loop" ELSE "raised"

\* the raise statement: the call ends with the exception
Raise(exc) ==
    /\ pc' = "raised"
    /\ raised' = exc

ElapsedCap == DEFAULT_MAX_REQUEST_SECONDS + 1

\* time.monotonic() - request_start is read only under a request budget (lines 309
\* and 360): seconds are counted then, up to the first value above the budget
Capped(seconds) ==
    IF max_request_seconds = 0 THEN 0
    ELSE IF seconds > ElapsedCap THEN ElapsedCap ELSE seconds

Max(a, b) == IF a >= b THEN a ELSE b

NoUrl == build_api_url(0, 0)

Zeroes(S) == [x \in S |-> 0]

NoFiles(S) == [x \in S |-> NoFile]

Running == {"loop", "attempt", "backoff", "fetched", "w_data", "w_rename", "parse",
            "parsed", "entry", "doc_sleep", "advance", "page_sleep"}

\* A local that is assigned again before it is next read is set back to its first
\* value once its last reader has run.

\* the frame of fetch_text after the caller has read request_elapsed
FrameGone ==
    /\ url' = NoUrl
    /\ attempt' = 0
    /\ last_error' = NoError
    /\ request_elapsed' = 0
    /\ tries' = 0
    /\ slept' = <<>>
    /\ longest' = 0
    /\ last_status' = NoError
    /\ wire' = FullText(Blank)
    /\ busy' = 0

\* ------------------------------------------------------------ fetch_text

\* line 107
max_attempts(delays) == Len(delays) + 1

\* lines 111-119: whether the attempt ends in a requests.RequestException: no
\* response, a 5xx status (line 112) or a status raise_for_status rejects
RaisesRequestException(status) ==
    \/ status = 0
    \/ 500 <= status /\ status <= 599
    \/ 400 <= status /\ status < 600

\* a last_error that keeps the first error of the call
NextLastErrorFirst(previous, exc) == IF previous = NoError THEN exc ELSE previous

\* line 120
NextLastError(previous, exc) == exc

\* a delay scaled by the failures so far
RetryDelayScaled(delays, n) == delays[n] * n

\* line 123 (attempt counts from 1, the list from 0)
RetryDelay(delays, n) == delays[n]

\* a loop that gives up one attempt early
IsLastAttemptEarly(n, delays) == n >= Len(delays)

\* line 121
IsLastAttempt(n, delays) == n = max_attempts(delays)

\* what the server sends with a status: its body for the request, a damaged one or
\* nothing
Sent(status, payload, f, u) ==
    IF status # 200 \/ payload = "blank" THEN FullText(Blank)
    ELSE IF payload = "garbled" THEN FullText(Garbled)
    ELSE FullText(ServerBody(f, u))

\* line 118: response.text
ResponseText(sent) == sent

\* the clock of max_total_seconds may pass the budget whenever time passes
TimePasses ==
    over_total' \in IF max_total_seconds = 0 THEN {FALSE} ELSE {over_total, TRUE}

\* the call of fetch_text: lines 105-108, with request_start of the caller
CallFetch(who, u) ==
    /\ caller' = who
    /\ url' = u
    /\ attempt' = 1
    /\ last_error' = NoError
    /\ request_elapsed' = 0
    /\ tries' = 0
    /\ slept' = <<>>
    /\ longest' = 0
    /\ last_status' = NoError
    /\ wire' = FullText(Blank)
    /\ busy' = 0
    /\ pc' = "attempt"

\* lines 109-122 and 125-126: one pass of the for loop up to the sleep
Attempt ==
    /\ pc = "attempt"
    /\ \E status \in Statuses, seconds \in AttemptSeconds, payload \in Payloads :
          /\ url.kind = "abs" => payload # "garbled"
          /\ tries' = tries + 1
          /\ last_status' = status
          /\ longest' = Capped(Max(longest, seconds))
          /\ busy' = Capped(busy + seconds)
          /\ wire' = Sent(status, payload, feed, url)
          /\ request_elapsed' = Capped(request_elapsed + seconds)
          /\ IF RaisesRequestException(status)
             THEN /\ last_error' = NextLastError(last_error, status)
                  /\ body' = body
                  /\ IF IsLastAttempt(attempt, retry_delays)
                     THEN Raise([type |-> "DownloadError", at |-> "fetch_text",
                                 cause |-> last_error'])
                     ELSE /\ pc' = "backoff"
                          /\ raised' = raised
             ELSE /\ body' = ResponseText(wire')
                  /\ pc' = "fetched"
                  /\ raised' = raised
                  /\ last_error' = NoError
          /\ attempt' = IF pc' = "backoff" THEN attempt ELSE 0
    /\ TimePasses
    /\ UNCHANGED <<config, runs, disk, loop_locals, caller, url, slept, read_errors, history>>
    /\ nap' = NoNap
    /\ unrested' = caller
    /\ UNCHANGED reading
    /\ UNCHANGED batch
    /\ UNCHANGED offline

\* lines 123-124 and the next pass of the for loop
Backoff ==
    /\ pc = "backoff"
    /\ slept' = Append(slept, RetryDelay(retry_delays, attempt))
    /\ request_elapsed' = Capped(request_elapsed + RetryDelay(retry_delays, attempt))
    /\ attempt' = attempt + 1
    /\ pc' = "attempt"
    /\ TimePasses
    /\ UNCHANGED <<config, runs, disk, loop_locals, caller, body, url, last_error, tries,
                   longest, last_status, wire, busy, raised, read_errors, history>>
    /\ nap' = [kind |-> "retry", tenths |-> 10 * RetryDelay(retry_delays, attempt)]
    /\ unrested' = "none"
    /\ UNCHANGED reading
    /\ UNCHANGED batch
    /\ UNCHANGED offline

\* ------------------------------------------------------- safe_write_text

\* a write that opens the final name itself
OpenInPlace(d, text) ==
    [final |-> [exists |-> TRUE, body |-> text.body, bytes |-> 0], tmp |-> d.tmp]

\* line 175, the open: tmp_path is created or truncated; d is the pair of files
\* under the final name and under the temporary name
OpenTmp(d, text) ==
    [final |-> d.final, tmp |-> [exists |-> TRUE, body |-> text.body, bytes |-> 0]]

\* line 175, the write: one more chunk reaches tmp_path
WriteChunk(d) == [final |-> d.final, tmp |-> [d.tmp EXCEPT !.bytes = @ + 1]]

\* line 176: tmp_path.replace(path)
Replace(d) == [final |-> d.tmp, tmp |-> NoFile]

\* the key of the file safe_write_text is writing, by caller
DocKey == sanitize_id(entries[idx].arxiv_id)

Pair == IF caller = "page"
        THEN [final |-> api_dir[api_pages], tmp |-> api_tmp[api_pages]]
        ELSE [final |-> html_dir[DocKey], tmp |-> html_tmp[DocKey]]

\* the directory after the pair of the file in hand became d
Store(d) ==
    IF caller = "page"
    THEN /\ api_dir' = [api_dir EXCEPT ![api_pages] = d.final]
         /\ api_tmp' = [api_tmp EXCEPT ![api_pages] = d.tmp]
         /\ UNCHANGED <<html_dir, html_tmp>>
    ELSE /\ html_dir' = [html_dir EXCEPT ![DocKey] = d.final]
         /\ html_tmp' = [html_tmp EXCEPT ![DocKey] = d.tmp]
         /\ UNCHANGED <<api_dir, api_tmp>>

\* a budget that is never looked at
ExceedsNever(budget, elapsed) == FALSE

\* a budget held against the longest single attempt
ExceedsPerAttempt(budget, elapsed) == budget # 0 /\ longest > budget

\* lines 309 and 360
ExceedsRequestBudget(budget, elapsed) == budget # 0 /\ elapsed > budget

\* lines 308-313 and 359-365: the budget check on fetch_text's return, then the
\* start of safe_write_text
Fetched ==
    /\ pc = "fetched"
    /\ caller \in {"page", "doc"}
    /\ IF ExceedsRequestBudget(max_request_seconds, request_elapsed)
       THEN /\ Raise([type |-> "SlowDownloadError", at |-> "request", cause |-> NoError])
            /\ UNCHANGED <<disk, frame>>
       ELSE /\ Store(OpenTmp(Pair, body))
            /\ pc' = IF Size(body.body) = 0 THEN "w_rename" ELSE "w_data"
            /\ raised' = raised
            /\ FrameGone
    /\ UNCHANGED <<config, runs, loop_locals, caller, body, over_total, read_errors, history>>
    /\ nap' = NoNap
    /\ unrested' = unrested
    /\ UNCHANGED reading
    /\ UNCHANGED batch
    /\ UNCHANGED offline

\* line 175: write_text goes on
WriteData ==
    /\ pc = "w_data"
    /\ Store(WriteChunk(Pair))
    /\ pc' = IF Complete(WriteChunk(Pair).tmp) THEN "w_rename" ELSE "w_data"
    /\ UNCHANGED <<config, runs, loop_locals, caller, body, frame, over_total, raised,
                   read_errors, history>>
    /\ nap' = NoNap
    /\ unrested' = unrested
    /\ UNCHANGED reading
    /\ UNCHANGED batch
    /\ UNCHANGED offline

\* line 176, and the return to download_author
Rename ==
    /\ pc = "w_rename"
    /\ Store(Replace(Pair))
    /\ IF caller = "page"
       THEN pc' = "parse" /\ UNCHANGED <<caller, body>>
       ELSE pc' = "doc_sleep" /\ caller' = "none" /\ body' = FullText(Blank)
    /\ UNCHANGED <<config, runs, loop_locals, frame, over_total, raised, read_errors, history>>
    /\ nap' = NoNap
    /\ unrested' = unrested
    /\ UNCHANGED reading
    /\ UNCHANGED batch
    /\ UNCHANGED offline

\* ------------------------------------------------------- download_author

\* the locals of a process that is not running
Blanked ==
    /\ start' = 0
    /\ api_pages' = 0
    /\ total_results' = 0
    /\ seen_ids' = {}
    /\ matched_count' = 0
    /\ api_fetched' = FALSE
    /\ page_total' = 0
    /\ entries' = <<>>
    /\ idx' = 0
    /\ caller' = "none"
    /\ body' = FullText(Blank)
    /\ FrameGone
    /\ over_total' = FALSE
    /\ raised' = NoException
    /\ read_errors' = {}
    /\ nap' = NoNap
    /\ unrested' = "none"
    /\ net_pages' = Zeroes(PageIndices)
    /\ match_checks' = Zeroes(ArxivIds)
    /\ doc_requests' = Zeroes(ArxivIds)

\* lines 280-289: download_author is called
StartRun ==
    /\ pc \in {"idle", "returned", "raised", "killed"}
    /\ runs < MaxRuns
    /\ runs' = runs + 1
    /\ Blanked
    /\ cached_at_start' = {i \in PageIndices : load_api_page(api_dir[i], TRUE).ok}
    /\ killed_at' = "none"
    /\ pc' = "loop"
    /\ UNCHANGED <<config, disk>>
    /\ UNCHANGED reading
    /\ UNCHANGED batch
    /\ UNCHANGED offline

\* a page counter that leaves an index out
NextPageIndexSkips(pages) == pages + 2

\* line 293
NextPageIndex(pages) == pages + 1

\* lines 293-307 and 320: the next page index, the look into the cache and, on a
\* miss, the call of fetch_text
LoadPage ==
    /\ pc = "loop"
    /\ \E read_ok \in BOOLEAN :
          LET i      == NextPageIndex(api_pages)
              parsed == load_api_page(api_dir[i], read_ok)
          IN  /\ ~read_ok => api_dir[i].exists /\ api_dir[i].bytes # 0
              /\ api_pages' = i
              /\ api_fetched' = FALSE
              /\ read_errors' = IF read_ok THEN read_errors ELSE read_errors \cup {i}
              /\ IF parsed.ok
                 THEN /\ page_total' = parsed.total
                      /\ entries' = parsed.entries
                      /\ pc' = "parsed"
                      /\ UNCHANGED <<caller, frame, net_pages>>
                 ELSE /\ CallFetch("page", build_api_url(start, PAGE_SIZE))
                      /\ net_pages' = [net_pages EXCEPT ![i] = @ + 1]
                      /\ UNCHANGED <<page_total, entries>>
    /\ UNCHANGED <<config, runs, disk, start, total_results, seen_ids, matched_count, idx,
                   body, over_total, raised, killed_at, cached_at_start, match_checks,
                   doc_requests>>
    /\ nap' = NoNap
    /\ unrested' = unrested
    /\ UNCHANGED reading
    /\ UNCHANGED batch
    /\ UNCHANGED offline

\* a parse step that removes the file of a page that does not parse
ParsePageRemovesBad ==
    /\ pc = "parse"
    /\ api_fetched' = TRUE
    /\ LET parsed == parse_api_feed(body)
       IN  IF parsed.ok
           THEN /\ page_total' = parsed.total
                /\ entries' = parsed.entries
                /\ pc' = "parsed"
                /\ raised' = raised
                /\ api_dir' = api_dir
           ELSE /\ Raise([type |-> "DownloadError", at |-> "parse",
                       cause |-> ParseErrorCode])
                /\ api_dir' = [api_dir EXCEPT ![api_pages] = NoFile]
                /\ UNCHANGED <<page_total, entries>>
    /\ caller' = "none"
    /\ body' = FullText(Blank)
    /\ UNCHANGED <<config, runs, api_tmp, html_dir, html_tmp, start, api_pages, total_results,
                   seen_ids, matched_count, idx, frame, over_total, read_errors, history>>
    /\ nap' = NoNap
    /\ unrested' = unrested
    /\ UNCHANGED reading
    /\ UNCHANGED batch
    /\ UNCHANGED offline

\* lines 314-318
ParsePage ==
    /\ pc = "parse"
    /\ api_fetched' = TRUE
    /\ LET parsed == parse_api_feed(body)
       IN  IF parsed.ok
           THEN /\ page_total' = parsed.total
                /\ entries' = parsed.entries
                /\ pc' = "parsed"
                /\ raised' = raised
           ELSE /\ Raise([type |-> "DownloadError", at |-> "parse",
                       cause |-> ParseErrorCode])
                /\ UNCHANGED <<page_total, entries>>
    /\ caller' = "none"
    /\ body' = FullText(Blank)
    /\ UNCHANGED <<config, runs, disk, start, api_pages, total_results, seen_ids, matched_count,
                   idx, frame, over_total, read_errors, history>>
    /\ nap' = NoNap
    /\ unrested' = unrested
    /\ UNCHANGED reading
    /\ UNCHANGED batch
    /\ UNCHANGED offline

\* a declared total taken from the first page that gives one
DeclaredTotalAnyPage(pages, total, current) ==
    IF current = 0 /\ total # 0 THEN total ELSE current

\* a declared total taken from a page only when the page came from the network
DeclaredTotalWhenFetched(pages, total, current) ==
    IF pages = 1 /\ total # 0 /\ api_fetched THEN total ELSE current

\* line 323
DeclaredTotal(pages, total, current) == IF pages = 1 /\ total # 0 THEN total ELSE current

\* lines 322-334, and 382-391 when the page is empty
PageParsed ==
    /\ pc = "parsed"
    /\ total_results' = DeclaredTotal(api_pages, page_total, total_results)
    /\ page_total' = 0
    /\ IF entries = <<>>
       THEN pc' = "returned" /\ idx' = idx
       ELSE pc' = "entry" /\ idx' = 1
    /\ UNCHANGED <<config, runs, disk, start, api_pages, seen_ids, matched_count, api_fetched,
                   entries, caller, body, frame, over_total, raised, read_errors, history>>
    /\ nap' = NoNap
    /\ unrested' = unrested
    /\ UNCHANGED reading
    /\ UNCHANGED batch
    /\ UNCHANGED offline

\* a membership test against a set that is never filled
AlreadySeenNever(arxiv_id, seen) == arxiv_id \in {}

\* line 337
AlreadySeen(arxiv_id, seen) == arxiv_id \in seen

\* a test that never finds the document
HasDocumentNever(file) == FALSE

\* a test that takes an empty file for the document
HasDocumentAnySize(file) == file.exists

\* line 349
HasDocument(file) == file.exists /\ file.bytes # 0

AfterEntry == IF idx + 1 > Len(entries) THEN "advance" ELSE "entry"

\* lines 336-358: one pass of the for loop up to the call of fetch_text
Entry ==
    /\ pc = "entry"
    /\ LET e == entries[idx]
       IN  IF AlreadySeen(e.arxiv_id, seen_ids)
           THEN /\ pc' = AfterEntry
                /\ idx' = idx + 1
                /\ UNCHANGED <<seen_ids, matched_count, caller, frame, match_checks,
                               doc_requests>>
           ELSE /\ seen_ids' = seen_ids \cup {e.arxiv_id}
                /\ match_checks' = [match_checks EXCEPT ![e.arxiv_id] = @ + 1]
                /\ IF ~author_matches(FirstName, LastName, e.authors)
                   THEN /\ pc' = AfterEntry
                        /\ idx' = idx + 1
                        /\ UNCHANGED <<matched_count, caller, frame, doc_requests>>
                   ELSE /\ matched_count' = matched_count + 1
                        /\ IF HasDocument(html_dir[sanitize_id(e.arxiv_id)])
                           THEN /\ pc' = AfterEntry
                                /\ idx' = idx + 1
                                /\ UNCHANGED <<caller, frame, doc_requests>>
                           ELSE /\ CallFetch("doc", abs_url(e.arxiv_id))
                                /\ doc_requests' = [doc_requests EXCEPT ![e.arxiv_id] = @ + 1]
                                /\ idx' = idx
    /\ UNCHANGED <<config, runs, disk, start, api_pages, total_results, api_fetched, page_total,
                   entries, body, over_total, raised, read_errors, killed_at,
                   cached_at_start, net_pages>>
    /\ nap' = NoNap
    /\ unrested' = unrested
    /\ UNCHANGED reading
    /\ UNCHANGED batch
    /\ UNCHANGED offline

\* line 366: rand_sleep(html_sleep_min, html_sleep_max), and the next entry
DocSleep ==
    /\ pc = "doc_sleep"
    /\ pc' = AfterEntry
    /\ idx' = idx + 1
    /\ TimePasses
    /\ UNCHANGED <<config, runs, disk, start, api_pages, total_results, seen_ids, matched_count,
                   api_fetched, page_total, entries, caller, body, frame, raised,
                   read_errors, history>>
    /\ \E t \in rand_sleep(html_sleep[1], html_sleep[2]) : nap' = [kind |-> "doc", tenths |-> t]
    /\ unrested' = "none"
    /\ UNCHANGED reading
    /\ UNCHANGED batch
    /\ UNCHANGED offline

\* an offset that advances by the entries the page held
NextStartByEntries(offset) == offset + Len(entries)

\* line 368
NextStart(offset) == offset + PAGE_SIZE

\* a bound the offset has to pass, not only to reach
ReachedTotalStrict(total, offset) == total # 0 /\ offset > total

\* line 369
ReachedTotal(total, offset) == total # 0 /\ offset >= total

\* a page sleep after every page
SleepsAfterPageAlways(fetched) == TRUE

\* a loop without page sleeps
SleepsAfterPageNever(fetched) == FALSE

\* line 379
SleepsAfterPage(fetched) == fetched

\* a loop end that looks at the budget of the run before the declared total
AdvanceBudgetFirst ==
    /\ pc = "advance"
    /\ start' = NextStart(start)
    /\ IF max_total_seconds # 0 /\ over_total
       THEN Raise([type |-> "SlowDownloadError", at |-> "total", cause |-> NoError])
       ELSE IF ReachedTotal(total_results, start')
            THEN pc' = "returned" /\ raised' = raised
            ELSE /\ pc' = IF SleepsAfterPage(api_fetched) THEN "page_sleep" ELSE "loop"
                 /\ raised' = raised
    /\ entries' = <<>>
    /\ idx' = 0
    /\ UNCHANGED <<config, runs, disk, api_pages, total_results, seen_ids, matched_count,
                   api_fetched, page_total, caller, body, frame, over_total,
                   read_errors, history>>
    /\ nap' = NoNap
    /\ unrested' = unrested
    /\ UNCHANGED reading
    /\ UNCHANGED batch
    /\ UNCHANGED offline

\* lines 368-379, and 382-391 on the break
Advance ==
    /\ pc = "advance"
    /\ start' = NextStart(start)
    /\ IF ReachedTotal(total_results, start')
       THEN pc' = "returned" /\ raised' = raised
       ELSE IF max_total_seconds # 0 /\ over_total
            THEN Raise([type |-> "SlowDownloadError", at |-> "total", cause |-> NoError])
            ELSE /\ pc' = IF SleepsAfterPage(api_fetched) THEN "page_sleep" ELSE "loop"
                 /\ raised' = raised
    /\ entries' = <<>>
    /\ idx' = 0
    /\ UNCHANGED <<config, runs, disk, api_pages, total_results, seen_ids, matched_count,
                   api_fetched, page_total, caller, body, frame, over_total,
                   read_errors, history>>
    /\ nap' = NoNap
    /\ unrested' = unrested
    /\ UNCHANGED reading
    /\ UNCHANGED batch
    /\ UNCHANGED offline

\* line 380: rand_sleep(api_sleep_min, api_sleep_max)
PageSleep ==
    /\ pc = "page_sleep"
    /\ pc' = "loop"
    /\ TimePasses
    /\ UNCHANGED <<config, runs, disk, loop_locals, caller, body, frame, raised, read_errors,
                   history>>
    /\ \E t \in rand_sleep(api_sleep[1], api_sleep[2]) : nap' = [kind |-> "page", tenths |-> t]
    /\ unrested' = "none"
    /\ UNCHANGED reading
    /\ UNCHANGED batch
    /\ UNCHANGED offline

\* The process is killed: its memory is gone, the files under their final names stay
\* as they are.  What it left under a temporary name is never read (line 175
\* truncates it first), so it is set back to no file here.
Interrupt ==
    /\ pc \in Running
    /\ Blanked
    /\ cached_at_start' = {}
    /\ killed_at' = pc
    /\ pc' = "killed"
    /\ api_tmp' = NoFiles(PageIndices)
    /\ html_tmp' = NoFiles(DocNames)
    /\ UNCHANGED <<config, runs, api_dir, html_dir>>
    /\ UNCHANGED reading
    /\ UNCHANGED batch
    /\ UNCHANGED offline

\* ------------------------------------------------------ specifications

InitLocals ==
    /\ start = 0
    /\ api_pages = 0
    /\ total_results = 0
    /\ seen_ids = {}
    /\ matched_count = 0
    /\ api_fetched = FALSE
    /\ page_total = 0
    /\ entries = <<>>
    /\ idx = 0
    /\ caller = "none"
    /\ body = FullText(Blank)
    /\ url = NoUrl
    /\ attempt = 0
    /\ last_error = NoError
    /\ request_elapsed = 0
    /\ over_total = FALSE
    /\ raised = NoException
    /\ tries = 0
    /\ slept = <<>>
    /\ longest = 0
    /\ last_status = NoError
    /\ read_errors = {}
    /\ nap = NoNap
    /\ unrested = "none"
    /\ wire = FullText(Blank)
    /\ busy = 0
    /\ cached_at_start = {}
    /\ killed_at = "none"
    /\ net_pages = Zeroes(PageIndices)
    /\ match_checks = Zeroes(ArxivIds)
    /\ doc_requests = Zeroes(ArxivIds)

\* no entry is being read
NoVerdict == [crawl |-> FALSE, tracked |-> FALSE, silver |-> FALSE]

NoIds == [crawl |-> None, pdf_url |-> None]

InitReading ==
    /\ target = [first |-> FirstName, last |-> LastName]
    /\ full_name = <<>>
    /\ verdict = NoVerdict
    /\ entry_id = <<>>
    /\ ids = NoIds

\* the registry and the index builders are not run
InitOffline ==
    /\ csv_file = [exists |-> FALSE, rows |-> <<>>]
    /\ appends = <<>>
    /\ builder = "none"
    /\ xml_files = <<>>
    /\ rows = <<>>
    /\ parse_errors = 0

\* no batch is under way
InitNoBatch ==
    /\ driver = "none"
    /\ stop_on_fail = FALSE
    /\ n_authors = 0
    /\ author_index = 0
    /\ reports = <<>>

InitDisk ==
    /\ api_dir = NoFiles(PageIndices)
    /\ api_tmp = NoFiles(PageIndices)
    /\ html_dir = NoFiles(DocNames)
    /\ html_tmp = NoFiles(DocNames)

\* a crawl of one author, run again and again over the same directories
Init ==
    /\ \E c \in Crawls :
          /\ feed = c[2]
          /\ retry_delays = c[1].delays
          /\ max_request_seconds = c[1].request
          /\ max_total_seconds = c[1].total
          /\ api_sleep = c[1].api_sleep
          /\ html_sleep = c[1].html_sleep
    /\ InitDisk
    /\ InitLocals
    /\ InitReading
    /\ InitNoBatch
    /\ InitOffline
    /\ runs = 0
    /\ pc = "idle"

Next ==
    \/ StartRun
    \/ LoadPage
    \/ Attempt
    \/ Backoff
    \/ Fetched
    \/ WriteData
    \/ Rename
    \/ ParsePage
    \/ PageParsed
    \/ Entry
    \/ DocSleep
    \/ Advance
    \/ PageSleep
    \/ Interrupt

Spec == Init /\ [][Next]_vars

\* lines 258-262: fetch_total_results parses what fetch_text returned
ProbeParsed ==
    /\ pc = "fetched"
    /\ caller = "probe"
    /\ LET parsed == parse_api_feed(body)
       IN  IF parsed.ok
           THEN /\ page_total' = parsed.total
                /\ pc' = "returned"
                /\ raised' = raised
           ELSE /\ Raise([type |-> "DownloadError", at |-> "parse",
                       cause |-> ParseErrorCode])
                /\ page_total' = page_total
    /\ UNCHANGED <<config, runs, disk, start, api_pages, total_results, seen_ids,
                   matched_count, api_fetched, entries, idx, caller, body, frame,
                   over_total, read_errors, history>>
    /\ nap' = NoNap
    /\ unrested' = unrested
    /\ UNCHANGED reading
    /\ UNCHANGED batch
    /\ UNCHANGED offline

\* one call of fetch_total_results (lines 250-257): fetch_text under every prefix of
\* RETRY_DELAYS, with no budget
InitFetch ==
    /\ feed \in Feeds
    /\ retry_delays \in {RetrySchedule(n) : n \in 0..Len(RETRY_DELAYS)}
    /\ max_request_seconds = 0
    /\ max_total_seconds = 0
    /\ api_sleep = Plain.api_sleep
    /\ html_sleep = Plain.html_sleep
    /\ InitDisk
    /\ runs = 0
    /\ start = 0
    /\ api_pages = 0
    /\ total_results = 0
    /\ seen_ids = {}
    /\ matched_count = 0
    /\ api_fetched = FALSE
    /\ page_total = 0
    /\ entries = <<>>
    /\ idx = 0
    /\ caller = "probe"
    /\ body = FullText(Blank)
    /\ url = build_api_url(0, 1)
    /\ attempt = 1
    /\ last_error = NoError
    /\ request_elapsed = 0
    /\ over_total = FALSE
    /\ raised = NoException
    /\ tries = 0
    /\ slept = <<>>
    /\ longest = 0
    /\ last_status = NoError
    /\ wire = FullText(Blank)
    /\ busy = 0
    /\ read_errors = {}
    /\ nap = NoNap
    /\ unrested = "none"
    /\ cached_at_start = {}
    /\ killed_at = "none"
    /\ net_pages = Zeroes(PageIndices)
    /\ match_checks = Zeroes(ArxivIds)
    /\ doc_requests = Zeroes(ArxivIds)
    /\ InitReading
    /\ InitNoBatch
    /\ InitOffline
    /\ pc = "attempt"

NextFetch ==
    \/ Attempt
    \/ Backoff
    \/ ProbeParsed

SpecFetch == InitFetch /\ [][NextFetch]_vars

\* ------------------------------------------------- reading one entry

David == <<"D", "a", "v", "i", "d">>

Silver == <<"S", "i", "l", "v", "e", "r">>

\* the words author names are made of
Words == {David, <<"D">>, <<"D", "a", "v">>, David \o <<"s", "o", "n">>, <<"D", "a", "n">>,
          Silver, Silver \o <<"m", "a", "n">>}

\* what stands between two words of a name
Separators == {<<" ">>, <<",", " ">>, <<".", " ">>}

RECURSIVE Join(_, _)
Join(words, sep) ==
    IF Len(words) = 0 THEN <<>>
    ELSE IF Len(words) = 1 THEN words[1]
    ELSE words[1] \o sep \o Join(Tail(words), sep)

MaxWords == 3

Names ==
    {Join(ws, sep) : ws \in UNION {[1..n -> Words] : n \in 1..MaxWords}, sep \in Separators}

\* tracked authors: a one-word last name, a two-word last name, no first name
Targets == {[first |-> David, last |-> Silver],
            [first |-> <<"D", "a", "n">>, last |-> Join(<<David, Silver>>, <<"-">>)],
            [first |-> <<>>, last |-> Silver]}

InitNames ==
    /\ feed = [total |-> <<"0">>, pages |-> << >>]
    /\ retry_delays = Plain.delays
    /\ max_request_seconds = Plain.request
    /\ max_total_seconds = Plain.total
    /\ api_sleep = Plain.api_sleep
    /\ html_sleep = Plain.html_sleep
    /\ InitDisk
    /\ InitLocals
    /\ runs = 0
    /\ target \in Targets
    /\ full_name \in Names
    /\ verdict = NoVerdict
    /\ entry_id = <<>>
    /\ ids = NoIds
    /\ InitNoBatch
    /\ InitOffline
    /\ pc = "name"

\* one author name of an entry, put to the matcher of the crawl (main.py line 343)
\* and to those of the first-author index builders
MatchName ==
    /\ pc = "name"
    /\ verdict' = [crawl   |-> author_matches(target.first, target.last, <<full_name>>),
                   tracked |-> author_name_matches_target(target.first, target.last,
                                                          full_name),
                   silver  |-> is_david_silver(full_name)]
    /\ pc' = "matched"
    /\ UNCHANGED <<config, disk, runs, loop_locals, caller, body, frame, over_total, raised,
                   nap, unrested, read_errors, history, target, full_name, entry_id, ids,
                   batch, offline>>

NextNames ==
    \/ MatchName

SpecNames == InitNames /\ [][NextNames]_vars

\* the texts of atom:id elements: with no marker, one or two; plain, versioned or
\* ending like a version; bare or padded
Heads == {<<>>, <<"u", "/", "a", "b", "s", "/">>,
          <<"u", "/", "a", "b", "s", "/", "x", "/", "a", "b", "s", "/">>}

Stems == {<<"a">>, <<"q", "/", "7">>, <<"1", "7", ".", "0", "5">>}

Versions == {<<>>, <<"v", "1">>, <<"v", "1", "2">>, <<"v">>, <<"v", "1", "a">>}

Pads == {<<>>, <<" ">>}

EntryIds ==
    {pad \o head \o stem \o version \o pad :
        pad \in Pads, head \in Heads, stem \in Stems, version \in Versions}
    \cup {<<" ">>, <<"u", "/", "a", "b", "s", "/">>, <<"u", "/", "a", "b", "s", "/", " ", "a">>}

InitIds ==
    /\ feed = [total |-> <<"0">>, pages |-> << >>]
    /\ retry_delays = Plain.delays
    /\ max_request_seconds = Plain.request
    /\ max_total_seconds = Plain.total
    /\ api_sleep = Plain.api_sleep
    /\ html_sleep = Plain.html_sleep
    /\ InitDisk
    /\ InitLocals
    /\ runs = 0
    /\ target = [first |-> FirstName, last |-> LastName]
    /\ full_name = <<>>
    /\ verdict = NoVerdict
    /\ entry_id \in EntryIds
    /\ ids = NoIds
    /\ InitNoBatch
    /\ InitOffline
    /\ pc = "entry"

\* one atom:entry with an atom:id text, read by parse_api_feed and by
\* canonical_pdf_url_from_entry
ExtractId ==
    /\ pc = "entry"
    /\ LET parsed == FeedEntries(<< [id |-> entry_id, authors |-> <<>>] >>)
       IN  ids' = [crawl   |-> IF parsed = <<>> THEN None ELSE parsed[1].arxiv_id,
                   pdf_url |-> canonical_pdf_url_from_entry(entry_id)]
    /\ pc' = "extracted"
    /\ UNCHANGED <<config, disk, runs, loop_locals, caller, body, frame, over_total, raised,
                   nap, unrested, read_errors, history, target, full_name, verdict,
                   entry_id, batch, offline>>

NextIds ==
    \/ ExtractId

SpecIds == InitIds /\ [][NextIds]_vars

\* ------------------------------------------------------ batch drivers

\* a listing of one page whose entries are both listed under the tracked author
Both == << <<EntryA, EntryQ>> >>

\* what the server holds for an author of the registry
BatchFeeds ==
    { [total |-> <<"2">>, pages |-> Both],
      [total |-> <<"0">>, pages |-> << >>],
      [total |-> <<"0">>, pages |-> Short] }

StoredDoc(arxiv_id) == FullText(Html(arxiv_id))

\* what the HTML directory of an author holds when the batch comes to the author:
\* nothing, one document, one file of size zero, two documents
Stores ==
    { NoFiles(DocNames),
      [NoFiles(DocNames) EXCEPT ![sanitize_id(<<"a", "v", "1">>)] = StoredDoc(<<"a", "v", "1">>)],
      [NoFiles(DocNames) EXCEPT ![sanitize_id(<<"a", "v", "1">>)] = FullText(Blank)],
      [NoFiles(DocNames) EXCEPT ![sanitize_id(<<"a", "v", "1">>)] = StoredDoc(<<"a", "v", "1">>),
                                ![sanitize_id(<<"q", "/", "7">>)] = StoredDoc(<<"q", "/", "7">>)] }

MaxAuthors == 2

\* batch mode of main.py passes RETRY_DELAYS and no budget (lines 473-478, 497-502)
MainBatch == [delays |-> RetrySchedule(MaxRetries), request |-> 0, total |-> 0,
              api_sleep |-> <<API_SLEEP_MIN, API_SLEEP_MAX>>,
              html_sleep |-> <<HTML_SLEEP_MIN, HTML_SLEEP_MAX>>]

\* the drivers: batch mode of main.py, and test_loop.py with STOP_ON_FAIL set (the
\* default) or not
Drivers ==
    { [name |-> "main", stop |-> FALSE, passes |-> MainBatch],
      [name |-> "test_loop", stop |-> TRUE, passes |-> Retrying],
      [name |-> "test_loop", stop |-> FALSE, passes |-> Retrying] }

InitBatch ==
    /\ \E d \in Drivers :
          /\ driver = d.name
          /\ stop_on_fail = d.stop
          /\ retry_delays = d.passes.delays
          /\ max_request_seconds = d.passes.request
          /\ max_total_seconds = d.passes.total
          /\ api_sleep = d.passes.api_sleep
          /\ html_sleep = d.passes.html_sleep
    /\ n_authors \in 1..MaxAuthors
    /\ author_index = 0
    /\ reports = <<>>
    /\ feed = [total |-> <<"0">>, pages |-> << >>]
    /\ InitDisk
    /\ InitLocals
    /\ InitReading
    /\ InitOffline
    /\ runs = 0
    /\ pc = "batch"

\* count_html_files (lines 237-240)
count_html_files(dir) == Cardinality({d \in DOMAIN dir : dir[d].exists})

\* a test that lets an author with as many documents as results through
SkipsAuthorStrict(total, html_count) ==
    \/ total = 0 /\ html_count = 0
    \/ html_count > total /\ total > 0

\* lines 489-493 of main(): the two tests that end in continue
SkipsAuthor(total, html_count) ==
    \/ total = 0 /\ html_count = 0
    \/ html_count >= total /\ total > 0

\* the for loop takes the next author (main.py line 472, test_loop.py line 125):
\* the server's feed and the HTML directory are those of that author; main() calls
\* fetch_total_results, test_loop calls download_author
BatchNext ==
    /\ pc = "batch"
    /\ author_index < n_authors
    /\ author_index' = author_index + 1
    /\ feed' \in BatchFeeds
    /\ html_dir' \in Stores
    /\ api_dir' = NoFiles(PageIndices)
    /\ UNCHANGED <<api_tmp, html_tmp>>
    /\ IF driver = "main"
       THEN /\ CallFetch("probe", build_api_url(0, 1))
            /\ runs' = runs
       ELSE /\ pc' = "loop"
            /\ runs' = runs + 1
            /\ UNCHANGED <<caller, frame>>
    /\ UNCHANGED <<retry_delays, max_request_seconds, max_total_seconds, api_sleep,
                   html_sleep, loop_locals, body, over_total, raised, nap, unrested,
                   read_errors, history, reading, offline, driver, stop_on_fail, n_authors,
                   reports>>

\* lines 486-502 of main(): the probe returned; the author is passed over or
\* download_author is called
BatchDecide ==
    /\ pc = "returned"
    /\ caller = "probe"
    /\ Blanked
    /\ IF SkipsAuthor(page_total, count_html_files(html_dir))
       THEN /\ pc' = "batch"
            /\ reports' = Append(reports, "skipped")
            /\ runs' = runs
       ELSE /\ pc' = "loop"
            /\ reports' = reports
            /\ runs' = runs + 1
    /\ UNCHANGED <<config, disk, killed_at, cached_at_start, reading, offline, driver, stop_on_fail,
                   n_authors, author_index>>

\* a failure handler that ends the batch whatever the driver
BatchFailedStops ==
    /\ pc = "raised"
    /\ Blanked
    /\ reports' = Append(reports, IF caller = "probe" THEN "check_failed"
                                  ELSE "download_failed")
    /\ pc' = "done"
    /\ UNCHANGED <<config, disk, runs, killed_at, cached_at_start, reading, offline, driver,
                   stop_on_fail, n_authors, author_index>>

\* the except clauses: main.py lines 479-484 and 504-509 (report, continue),
\* test_loop.py lines 142-150 (report, break if stop_on_fail, else continue)
BatchFailed ==
    /\ pc = "raised"
    /\ Blanked
    /\ reports' = Append(reports, IF caller = "probe" THEN "check_failed"
                                  ELSE "download_failed")
    /\ pc' = IF driver = "test_loop" /\ stop_on_fail THEN "done" ELSE "batch"
    /\ UNCHANGED <<config, disk, runs, killed_at, cached_at_start, reading, offline, driver,
                   stop_on_fail, n_authors, author_index>>

\* download_author returned: the loop goes on
BatchDone ==
    /\ pc = "returned"
    /\ caller # "probe"
    /\ Blanked
    /\ reports' = Append(reports, "downloaded")
    /\ pc' = "batch"
    /\ UNCHANGED <<config, disk, runs, killed_at, cached_at_start, reading, offline, driver,
                   stop_on_fail, n_authors, author_index>>

\* the list is exhausted
BatchEnd ==
    /\ pc = "batch"
    /\ author_index = n_authors
    /\ pc' = "done"
    /\ UNCHANGED <<config, disk, runs, loop_locals, caller, body, frame, over_total, raised,
                   nap, unrested, read_errors, history, reading, batch, offline>>

NextBatch ==
    \/ BatchNext
    \/ Attempt
    \/ Backoff
    \/ ProbeParsed
    \/ BatchDecide
    \/ LoadPage
    \/ Fetched
    \/ WriteData
    \/ Rename
    \/ ParsePage
    \/ PageParsed
    \/ Entry
    \/ DocSleep
    \/ Advance
    \/ PageSleep
    \/ BatchFailed
    \/ BatchDone
    \/ BatchEnd

SpecBatch == InitBatch /\ [][NextBatch]_vars

\* ------------------------------------------------ the registry of authors

\* str.lower()
Lower(s) == [i \in 1..Len(s) |-> LowerChar(s[i])]

\* str.strip(",")
RECURSIVE StripCommas(_)
StripCommas(s) ==
    IF s = <<>> THEN s
    ELSE IF s[1] = "," THEN StripCommas(Tail(s))
    ELSE IF s[Len(s)] = "," THEN StripCommas(SubSeq(s, 1, Len(s) - 1))
    ELSE s

\* the row ensure_csv_header writes
Header == << <<"l", "a", "s", "t", "-", "n", "a", "m", "e">>,
             <<"f", "i", "r", "s", "t", "-", "n", "a", "m", "e">> >>

\* ensure_csv_header (lines 394-400): an existing file is left as it is
ensure_csv_header(file) ==
    IF file.exists THEN file ELSE [exists |-> TRUE, rows |-> <<Header>>]

\* the rows the reading loop of append_author_to_csv takes a key from (lines 408-414):
\* not an empty row, not a first row that holds "last", not a row of one field
KeyRows(file_rows) ==
    {i \in 1..Len(file_rows) :
        /\ file_rows[i] # <<>>
        /\ ~(i = 1 /\ FindFirst(Lower(file_rows[i][1]), <<"l", "a", "s", "t">>) # 0)
        /\ Len(file_rows[i]) >= 2}

\* existing: the key of a stored row is stripped and lowered (line 415)
ExistingKeys(file_rows) ==
    {<<Lower(Strip(file_rows[i][1])), Lower(Strip(file_rows[i][2]))>> :
        i \in KeyRows(file_rows)}

\* the key of the pair to append is lowered, not stripped (line 418)
NewKey(last_name, first_name) == <<Lower(last_name), Lower(first_name)>>

\* append_author_to_csv (lines 403-424); csv.writer and csv.reader hand a field of
\* letters, spaces and commas back as it was written, so the file is its rows
append_author_to_csv(file, last_name, first_name) ==
    LET checked == ensure_csv_header(file)
    IN  IF NewKey(last_name, first_name) \in ExistingKeys(checked.rows)
        THEN checked
        ELSE [checked EXCEPT !.rows = Append(@, <<last_name, first_name>>)]

Ng == <<"N", "g">>

Al == <<"A", "l">>

\* what is typed for the last name on the command line
LastArgs == {Ng, Lower(Ng), <<" ">> \o Ng, Ng \o <<" ", ",">>, <<"W", "u">>}

\* what is typed for the first name
FirstArgs == {Al, <<"A", "L">>}

\* how many times main() is run in single-author mode
MaxAppends == 3

\* the registry before the first run: no file, a file with its header, a file with a row
InitRegistry ==
    /\ feed = [total |-> <<"0">>, pages |-> << >>]
    /\ retry_delays = Plain.delays
    /\ max_request_seconds = Plain.request
    /\ max_total_seconds = Plain.total
    /\ api_sleep = Plain.api_sleep
    /\ html_sleep = Plain.html_sleep
    /\ InitDisk
    /\ InitLocals
    /\ InitReading
    /\ InitNoBatch
    /\ runs = 0
    /\ csv_file \in {[exists |-> FALSE, rows |-> <<>>],
                     [exists |-> TRUE, rows |-> <<Header>>],
                     [exists |-> TRUE, rows |-> <<Header, <<Ng, Al>> >>]}
    /\ appends = <<>>
    /\ builder = "none"
    /\ xml_files = <<>>
    /\ rows = <<>>
    /\ parse_errors = 0
    /\ pc = "registry"

\* lines 516-518 of main(), single-author mode: the arguments are stripped of
\* whitespace, then of commas, and the pair is appended to the registry; the crawl
\* that follows leaves the registry alone
RegisterAuthor ==
    /\ pc = "registry"
    /\ Len(appends) < MaxAppends
    /\ \E last_arg \in LastArgs, first_arg \in FirstArgs :
          LET last_name  == StripCommas(Strip(last_arg))
              first_name == StripCommas(Strip(first_arg))
          IN  /\ csv_file' = append_author_to_csv(csv_file, last_name, first_name)
              /\ appends' = Append(appends, <<last_name, first_name>>)
    /\ UNCHANGED <<config, disk, runs, pc, loop_locals, caller, body, frame, over_total,
                   raised, nap, unrested, read_errors, history, reading, batch, export>>

NextRegistry ==
    \/ RegisterAuthor

SpecRegistry == InitRegistry /\ [][NextRegistry]_vars

\* ------------------------------------------------------ index builders

\* the characters of the texts at hand, in the order of their code points
CodeOrder ==
    <<" ", ",", "-", ".", "/">> \o Digits \o <<":">> \o UpperChars \o <<"_">> \o LowerChars

CodeRank(c) == CHOOSE i \in 1..Len(CodeOrder) : CodeOrder[i] = c

\* a < b of two str
RECURSIVE TextLess(_, _)
TextLess(a, b) ==
    IF b = <<>> THEN FALSE
    ELSE IF a = <<>> THEN TRUE
    ELSE IF a[1] = b[1] THEN TextLess(Tail(a), Tail(b))
    ELSE CodeRank(a[1]) < CodeRank(b[1])

\* text.split(): the runs of characters that are not whitespace
RECURSIVE SplitWords(_, _, _)
SplitWords(s, cur, acc) ==
    IF s = <<>> THEN (IF cur = <<>> THEN acc ELSE Append(acc, cur))
    ELSE IF s[1] \in Whitespace
         THEN SplitWords(Tail(s), <<>>, IF cur = <<>> THEN acc ELSE Append(acc, cur))
         ELSE SplitWords(Tail(s), Append(cur, s[1]), acc)

\* normalize_space (lines 40-41)
normalize_space(text) == Join(SplitWords(text, <<>>, <<>>), <<" ">>)

\* parse_year returned None
NoYear == -1

\* parse_year (lines 62-72) of the text of atom:published, <<>> when there is none
parse_year(published_text) ==
    LET published == Strip(published_text)
    IN  IF Len(published) >= 4 /\ \A i \in 1..4 : IsDigit(published[i])
        THEN DecimalValue(SubSeq(published, 1, 4), 0)
        ELSE NoYear

\* first_author_matches_tracked (build_papers_csv_first_author_all.py lines 87-98);
\* first_author is the text of the first atom:author's name, None with no author
first_author_matches_tracked(first_author, first_name, last_name) ==
    IF first_author = None THEN FALSE
    ELSE IF Strip(first_author) = <<>> THEN FALSE
    ELSE author_name_matches_target(first_name, last_name, Strip(first_author))

\* whether a builder goes on with an entry: build_papers_csv.py takes every entry
PassesFilter(which, entry, tracked) ==
    \/ which = "all"
    \/ first_author_matches_tracked(entry.first_author, tracked.first, tracked.last)

\* Paper(year, title, url) of an entry
PaperOf(entry) ==
    [year  |-> parse_year(entry.published),
     title |-> normalize_space(entry.title),
     url   |-> canonical_pdf_url_from_entry(entry.id)]

\* not (not title or year is None or not url)
Usable(paper) == paper.title # <<>> /\ paper.year # NoYear /\ paper.url # None

\* a replacement that also takes a paper of the same year
ReplacesOnTie(paper, existing) == paper.year <= existing.year

\* the paper of a URL already held is replaced by one of an earlier year
Replaces(paper, existing) == paper.year < existing.year

\* papers_by_url after one more paper; the dict is the list of its values in the
\* order their URLs were first put
Put(papers, paper) ==
    LET held == {i \in 1..Len(papers) : papers[i].url = paper.url}
    IN  IF held = {} THEN Append(papers, paper)
        ELSE LET i == CHOOSE k \in held : TRUE
             IN  IF Replaces(paper, papers[i]) THEN [papers EXCEPT ![i] = paper]
                 ELSE papers

\* the for loop over the entries of one page
RECURSIVE CollectEntries(_, _, _, _)
CollectEntries(which, entry_list, tracked, papers) ==
    IF entry_list = <<>> THEN papers
    ELSE LET entry == Head(entry_list)
             paper == PaperOf(entry)
         IN  CollectEntries(which, Tail(entry_list), tracked,
                            IF PassesFilter(which, entry, tracked) /\ Usable(paper)
                            THEN Put(papers, paper)
                            ELSE papers)

\* the for loop over the page files: a file that cannot be read or parsed is counted
RECURSIVE CollectFiles(_, _, _)
CollectFiles(which, files, acc) ==
    IF files = <<>> THEN acc
    ELSE LET file == Head(files)
         IN  CollectFiles(which, Tail(files),
                          IF file.ok
                          THEN [acc EXCEPT !.papers = CollectEntries(which, file.entries,
                                                                     file.tracked, @)]
                          ELSE [acc EXCEPT !.parse_errors = @ + 1])

\* the key of sorted(): (-row.year, row.title.lower(), row.url), compared as tuples
KeyLess(p, q) ==
    \/ -p.year < -q.year
    \/ /\ p.year = q.year
       /\ \/ TextLess(Lower(p.title), Lower(q.title))
          \/ Lower(p.title) = Lower(q.title) /\ TextLess(p.url, q.url)

\* sorted() is stable: a paper goes behind the papers that are not greater
InsertSorted(sorted_papers, paper) ==
    LET greater == {i \in 1..Len(sorted_papers) : KeyLess(paper, sorted_papers[i])}
        at      == IF greater = {} THEN Len(sorted_papers) + 1
                   ELSE CHOOSE i \in greater : \A j \in greater : i <= j
    IN  SubSeq(sorted_papers, 1, at - 1) \o <<paper>>
            \o SubSeq(sorted_papers, at, Len(sorted_papers))

RECURSIVE Sorted(_, _)
Sorted(papers, acc) ==
    IF papers = <<>> THEN acc ELSE Sorted(Tail(papers), InsertSorted(acc, Head(papers)))

\* collect_papers (build_papers_csv.py lines 79-114,
\* build_papers_csv_first_author_all.py lines 133-179)
collect_papers(which, files) ==
    LET collected == CollectFiles(which, files, [papers |-> <<>>, parse_errors |-> 0])
    IN  [rows |-> Sorted(collected.papers, <<>>), parse_errors |-> collected.parse_errors]

Text2016 == <<"2", "0", "1", "6">>

Id1 == <<"u", "/", "a", "b", "s", "/", "1">>

EntryGo ==
    [id |-> Id1 \o <<"v", "1">>, title |-> <<"O", "n", " ", " ", "G", "o">>,
     published |-> Text2016 \o <<"-", "0", "1">>,
     first_author |-> Join(<<David, Silver>>, <<" ">>)]

\* the same paper as another page lists it: the same year, the title of a later version
EntryGoRetitled ==
    [id |-> Id1 \o <<"v", "2">>, title |-> <<"G", "o">>,
     published |-> Text2016 \o <<"-", "0", "1">>,
     first_author |-> Join(<<David, Silver>>, <<" ">>)]

\* the same paper with an earlier year
EntryGoEarly ==
    [id |-> Id1, title |-> <<"O", "n", " ", "G", "o">>,
     published |-> <<" ", "2", "0", "1", "5">>,
     first_author |-> Join(<<Silver, David>>, <<",", " ">>)]

EntryZed ==
    [id |-> <<"u", "/", "a", "b", "s", "/", "2">>, title |-> <<"Z", "e", "d">>,
     published |-> Text2016, first_author |-> Join(<<David, Silver>>, <<" ">>)]

EntryAb ==
    [id |-> <<"u", "/", "a", "b", "s", "/", "3">>, title |-> <<"a", " ", "b">>,
     published |-> Text2016, first_author |-> <<"A", "n", "n", " ", "W", "u">>]

\* an entry with no title, and one whose atom:published holds no year
EntryUntitled ==
    [id |-> <<"u", "/", "a", "b", "s", "/", "4">>, title |-> <<" ">>,
     published |-> Text2016, first_author |-> Join(<<David, Silver>>, <<" ">>)]

EntryUndated ==
    [id |-> <<"u", "/", "a", "b", "s", "/", "5">>, title |-> <<"G", "o">>,
     published |-> <<"n", "/", "a">>, first_author |-> None]

TrackedSilver == [first |-> David, last |-> Silver]

\* the page files a cache may hold, under a directory named <last>-<first>; the
\* last is one that does not parse
PageFiles ==
    {[ok |-> TRUE, tracked |-> TrackedSilver, entries |-> <<EntryGo, EntryZed>>],
     [ok |-> TRUE, tracked |-> TrackedSilver, entries |-> <<EntryGoRetitled>>],
     [ok |-> TRUE, tracked |-> TrackedSilver, entries |-> <<EntryAb, EntryGoEarly>>],
     [ok |-> TRUE, tracked |-> TrackedSilver, entries |-> <<EntryUntitled, EntryUndated>>],
     [ok |-> FALSE, tracked |-> TrackedSilver, entries |-> <<>>]}

\* how many page files the cache holds
MaxFiles == 3

\* the lists of distinct page files, in every order
FileLists ==
    {files \in UNION {[1..n -> PageFiles] : n \in 0..MaxFiles} :
        \A i, j \in 1..Len(files) : i # j => files[i] # files[j]}

InitIndex ==
    /\ feed = [total |-> <<"0">>, pages |-> << >>]
    /\ retry_delays = Plain.delays
    /\ max_request_seconds = Plain.request
    /\ max_total_seconds = Plain.total
    /\ api_sleep = Plain.api_sleep
    /\ html_sleep = Plain.html_sleep
    /\ InitDisk
    /\ InitLocals
    /\ InitReading
    /\ InitNoBatch
    /\ runs = 0
    /\ csv_file = [exists |-> FALSE, rows |-> <<>>]
    /\ appends = <<>>
    /\ builder \in {"all", "first_author_all"}
    /\ xml_files \in FileLists
    /\ rows = <<>>
    /\ parse_errors = 0
    /\ pc = "index"

\* main() of a builder (build_papers_csv.py lines 126-141): collect_papers, then
\* write_csv writes the rows in the order collect_papers returned them
BuildIndex ==
    /\ pc = "index"
    /\ LET collected == collect_papers(builder, xml_files)
       IN  /\ rows' = collected.rows
           /\ parse_errors' = collected.parse_errors
    /\ pc' = "exported"
    /\ UNCHANGED <<config, disk, runs, loop_locals, caller, body, frame, over_total,
                   raised, nap, unrested, read_errors, history, reading, batch, registry,
                   builder, xml_files>>

NextIndex ==
    \/ BuildIndex

SpecIndex == InitIndex /\ [][NextIndex]_vars

\* ----------------------------------------------------------- properties

CeilDiv(a, b) == (a + b - 1) \div b

RECURSIVE SumSeq(_)
SumSeq(s) == IF s = <<>> THEN 0 ELSE s[1] + SumSeq(Tail(s))

\* what a crawl reads of page i of the server, and the total its first page declares
ServerPage(f, i) ==
    parse_api_feed(FullText(ServerBody(f, build_api_url((i - 1) * PAGE_SIZE, PAGE_SIZE)))).entries

ServerTotal(f) ==
    parse_api_feed(FullText(ServerBody(f, build_api_url(0, PAGE_SIZE)))).total

\* the page index at which a crawl that starts with nothing stored stops
RECURSIVE ColdStop(_, _)
ColdStop(f, i) ==
    IF ServerPage(f, i) = <<>> THEN i
    ELSE IF ServerTotal(f) # 0 /\ i * PAGE_SIZE >= ServerTotal(f) THEN i
    ELSE ColdStop(f, i + 1)

\* every page before the last is non-empty
NoDrift(f) ==
    \A i \in 1..(CeilDiv(ServerTotal(f), PAGE_SIZE) - 1) : ServerPage(f, i) # <<>>

\* the calls of fetch_text for pages in this run
RECURSIVE FetchesUpTo(_)
FetchesUpTo(i) == IF i = 0 THEN 0 ELSE net_pages[i] + FetchesUpTo(i - 1)

PageFetches == FetchesUpTo(Cardinality(PageIndices))

\* the ids the server lists under the tracked author
MatchingIds ==
    {FeedEntry(e).arxiv_id :
        e \in {r \in AllEntries :
                  r.id # None /\ author_matches(FirstName, LastName, FeedEntry(r).authors)}}

FinalFiles == {api_dir[i] : i \in PageIndices} \cup {html_dir[d] : d \in DocNames}

InSafeWrite == {"w_data", "w_rename"}

\* a duration lies between the two ends of a window
InWindow(t, window) ==
    \/ window[1] <= t /\ t <= window[2]
    \/ window[2] <= t /\ t <= window[1]

\* C1: a run asks the network for no page that the cache held in a usable state
\* when the run began (and that could be read), and a run that returns does so at
\* the page index and with the declared total of a crawl that starts with nothing
\* stored against the same server.
C1_IdempotentResume ==
    /\ \A i \in cached_at_start \ read_errors : net_pages[i] = 0
    /\ pc = "returned" =>
          /\ api_pages = ColdStop(feed, 1)
          /\ total_results = ServerTotal(feed)

\* a second run that found pages 1 and 2 stored, fetched page 3 only and returned
C1_ResumedAfterTwoPages ==
    /\ pc = "returned"
    /\ runs = 2
    /\ cached_at_start = {1, 2}
    /\ api_pages = 3
    /\ net_pages[1] = 0 /\ net_pages[2] = 0 /\ net_pages[3] = 1

\* C2 as stated: at most n+1 attempts; every transport error and every status
\* outside 200..299 on an attempt before the last is followed by the sleep of the
\* schedule's entry for that attempt and by the next attempt; nothing else is slept.
C2_NonSuccessIsRetried ==
    [][/\ tries' <= Len(retry_delays) + 1
       /\ (/\ pc = "attempt"
           /\ tries' = tries + 1
           /\ tries' < Len(retry_delays) + 1
           /\ (last_status' = 0 \/ last_status' \notin 200..299)) => pc' = "backoff"
       /\ (pc = "backoff" /\ pc' # "killed") =>
             /\ slept' = Append(slept, retry_delays[tries])
             /\ pc' = "attempt"
             /\ tries' = tries
       /\ slept' # slept => (pc = "backoff" \/ slept' = <<>>)]_vars

\* C2, amended: at most n+1 attempts; every transport error and every status of
\* 400 to 599 on an attempt before the last is followed by the sleep of the
\* schedule's entry for that attempt and by the next attempt; nothing else is slept.
C2_ErrorIsRetried ==
    [][/\ tries' <= Len(retry_delays) + 1
       /\ (/\ pc = "attempt"
           /\ tries' = tries + 1
           /\ tries' < Len(retry_delays) + 1
           /\ (last_status' = 0 \/ last_status' \in 400..599)) => pc' = "backoff"
       /\ (pc = "backoff" /\ pc' # "killed") =>
             /\ slept' = Append(slept, retry_delays[tries])
             /\ pc' = "attempt"
             /\ tries' = tries
       /\ slept' # slept => (pc = "backoff" \/ slept' = <<>>)]_vars

\* two attempts failed, the second on a transport error: 5 and 15 seconds were
\* slept and the third attempt is due
C2_ThirdAttemptDue ==
    /\ pc = "attempt"
    /\ tries = 2
    /\ attempt = 3
    /\ last_status = 0
    /\ slept = SubSeq(RETRY_DELAYS, 1, 2)

\* C3: a call that returns after failing on its first j attempts returns the body
\* the server sent on attempt j+1, slept the first j delays of the schedule in
\* order and raised nothing; no call fails for good with j <= n failed attempts.
C3_SucceedsAfterFailures ==
    /\ pc = "fetched" =>
          /\ tries \in 1..(Len(retry_delays) + 1)
          /\ slept = SubSeq(retry_delays, 1, tries - 1)
          /\ body = wire
          /\ raised = NoException
    /\ (raised.type = "DownloadError" /\ raised.at = "fetch_text") =>
          tries > Len(retry_delays)

\* two failures, then the feed of the server on the third attempt
C3_ThirdAttemptSucceeded ==
    /\ pc = "fetched"
    /\ tries = 3
    /\ last_status = 200
    /\ slept = SubSeq(RETRY_DELAYS, 1, 2)
    /\ body = FullText(ServerBody(feed, url))

\* C4: when all n+1 attempts fail the call ends in one DownloadError whose cause is
\* the error of the last attempt; nothing is returned, and the delays slept are the
\* n of the schedule, none after the last attempt.
C4_ExhaustionRaises ==
    /\ raised.at = "fetch_text" =>
          /\ pc = "raised"
          /\ raised.type = "DownloadError"
          /\ raised.cause = last_status
          /\ tries = Len(retry_delays) + 1
          /\ slept = retry_delays
    /\ (/\ caller # "none"
        /\ tries = Len(retry_delays) + 1
        /\ (last_status = 0 \/ last_status >= 400)) =>
          /\ pc = "raised"
          /\ raised.at = "fetch_text"

\* four attempts failed, the last with 503, after 5, 15 and 30 seconds of sleep
C4_AllAttemptsFailed ==
    /\ pc = "raised"
    /\ raised.at = "fetch_text"
    /\ raised.cause = 503
    /\ tries = Len(RETRY_DELAYS) + 1
    /\ slept = RETRY_DELAYS

\* C5 as stated: a fetch in which every attempt lasts no longer than
\* max_request_seconds does not raise the slow-fetch condition.
C5_BudgetIsPerAttempt ==
    (raised.type = "SlowDownloadError" /\ raised.at = "request") =>
        longest > max_request_seconds

\* C5, amended: the budget is held against the whole call of fetch_text: the
\* slow-fetch condition is raised on its return exactly when the attempts and the
\* sleeps between them took more than max_request_seconds together.
C5_BudgetIsCumulative ==
    [][(pc = "fetched" /\ pc' # "killed") =>
          ((pc' = "raised" /\ raised'.type = "SlowDownloadError" /\ raised'.at = "request")
              <=> (max_request_seconds # 0
                   /\ busy + SumSeq(slept) > max_request_seconds))]_vars

\* two attempts within the budget each, and the fetch was discarded as slow
C5_SlowByRetries ==
    /\ pc = "raised"
    /\ raised.type = "SlowDownloadError"
    /\ raised.at = "request"
    /\ tries = 2
    /\ longest <= max_request_seconds

\* C6 as stated: after a kill inside safe_write_text every final name is absent or
\* holds a complete text, and none holds a zero-byte or a partial one.
C6_NeverZeroByteNorPartial ==
    (pc = "killed" /\ killed_at \in InSafeWrite) =>
        \A file \in FinalFiles : ~file.exists \/ (Complete(file) /\ file.bytes # 0)

\* C6, amended: at every point, inside safe_write_text and after a kill there,
\* every final name is absent or holds the whole of a text that was written; it
\* holds zero bytes only where the text written was empty.
C6_AtomicPersistence ==
    \A file \in FinalFiles : ~file.exists \/ Complete(file)

\* killed while the temporary file of page 2 or of a document was half written,
\* with page 1 whole under its final name
C6_KilledMidWrite ==
    /\ pc = "killed"
    /\ killed_at = "w_data"
    /\ api_dir[1] = FullText(ServerBody(feed, build_api_url(0, PAGE_SIZE)))
    /\ ~api_dir[2].exists

\* C7: within one run every id is tested for a match at most once, counted in
\* matched_count at most once and its document requested at most once.
C7_Dedup ==
    /\ \A a \in ArxivIds :
          /\ match_checks[a] = IF a \in seen_ids THEN 1 ELSE 0
          /\ doc_requests[a] <= match_checks[a]
    /\ matched_count = Cardinality(seen_ids \cap MatchingIds)

\* a run over the drifted listing returned: the id on pages 2 and 3 was tested and
\* fetched once
C7_DriftedIdOnce ==
    /\ pc = "returned"
    /\ feed.pages = Drifted
    /\ api_pages = 3
    /\ match_checks[FeedEntry(EntryQ).arxiv_id] = 1
    /\ doc_requests[FeedEntry(EntryQ).arxiv_id] = 1
    /\ matched_count = 2

\* C8 as stated: for any total T declared on page 1, with no drift, a crawl that
\* starts with no usable page stored fetches ceil(T / PAGE_SIZE) pages and returns
\* that number.
C8_CeilOfAnyTotal ==
    (pc = "returned" /\ cached_at_start = {} /\ NoDrift(feed)) =>
        /\ api_pages = CeilDiv(ServerTotal(feed), PAGE_SIZE)
        /\ PageFetches = CeilDiv(ServerTotal(feed), PAGE_SIZE)

\* C8, amended: the same for a declared total of 1 or more.
C8_CeilOfPositiveTotal ==
    (pc = "returned" /\ cached_at_start = {} /\ NoDrift(feed) /\ ServerTotal(feed) >= 1) =>
        /\ api_pages = CeilDiv(ServerTotal(feed), PAGE_SIZE)
        /\ PageFetches = CeilDiv(ServerTotal(feed), PAGE_SIZE)

\* a declared total of 51 took two page fetches
C8_TwoPagesForFiftyOne ==
    /\ pc = "returned"
    /\ cached_at_start = {}
    /\ ServerTotal(feed) = PAGE_SIZE + 1
    /\ NoDrift(feed)
    /\ api_pages = 2
    /\ PageFetches = 2

\* C9 as stated: page i is asked for at offset (i - 1) * PAGE_SIZE, and with a
\* declared total of 120 the run stops after the third page.
C9_ThreePagesForOneTwenty ==
    /\ pc \in Running \ {"loop", "page_sleep"} => start = (api_pages - 1) * PAGE_SIZE
    /\ pc \in {"loop", "page_sleep"} => start = api_pages * PAGE_SIZE
    /\ (caller = "page" /\ pc \in {"attempt", "backoff", "fetched"}) =>
          url = build_api_url((api_pages - 1) * PAGE_SIZE, PAGE_SIZE)
    /\ (pc = "returned" /\ total_results = 120) => api_pages = 3

\* C9, amended: page i is asked for at offset (i - 1) * PAGE_SIZE; with a declared
\* total of 120 the run never goes past the third page, and it stops after the
\* third page, whatever that page holds, when pages 1 and 2 are not empty.
C9_PageOffsets ==
    /\ pc \in Running \ {"loop", "page_sleep"} => start = (api_pages - 1) * PAGE_SIZE
    /\ pc \in {"loop", "page_sleep"} => start = api_pages * PAGE_SIZE
    /\ (caller = "page" /\ pc \in {"attempt", "backoff", "fetched"}) =>
          url = build_api_url((api_pages - 1) * PAGE_SIZE, PAGE_SIZE)
    /\ total_results = 120 => api_pages <= 3
    /\ (/\ pc = "returned"
        /\ total_results = 120
        /\ ServerPage(feed, 1) # <<>>
        /\ ServerPage(feed, 2) # <<>>) => api_pages = 3

\* page 1 came from the cache, pages 2 and 3 from the network at offsets 50 and
\* 100, and the run stopped on a third page without entries
C9_StoppedAfterThirdPage ==
    /\ pc = "returned"
    /\ total_results = 120
    /\ cached_at_start = {1}
    /\ api_pages = 3
    /\ net_pages[2] = 1 /\ net_pages[3] = 1
    /\ start = 2 * PAGE_SIZE

\* C10: the step to page i looks into the cache first: a file that exists, is not
\* empty, can be read and parses is used and no request is made for i; otherwise
\* fetch_text is called for i.  No call for a page starts anywhere else.
C10_CacheBeforeNetwork ==
    [][/\ (pc = "loop" /\ pc' # "killed") =>
             LET i      == api_pages + 1
                 file   == api_dir[i]
                 usable == /\ file.exists
                           /\ file.bytes # 0
                           /\ i \notin read_errors'
                           /\ file.body.kind = "xml"
                           /\ Complete(file)
             IN  /\ api_pages' = i
                 /\ usable =>
                       /\ pc' = "parsed"
                       /\ entries' = FeedEntries(file.body.entries)
                       /\ net_pages' = net_pages
                       /\ caller' = "none"
                 /\ ~usable =>
                       /\ pc' = "attempt"
                       /\ caller' = "page"
                       /\ net_pages' = [net_pages EXCEPT ![i] = @ + 1]
       /\ (\E i \in PageIndices : net_pages'[i] > net_pages[i]) => pc = "loop"
       /\ (caller' = "page" /\ caller # "page") => pc = "loop"]_vars

\* page 1 was taken from the cache; page 2 was stored but could not be read, and
\* is being asked for again
C10_UnreadablePageRefetched ==
    /\ pc = "attempt"
    /\ caller = "page"
    /\ tries = 0
    /\ api_pages = 2
    /\ net_pages[1] = 0
    /\ 2 \in read_errors
    /\ 2 \in cached_at_start

\* C11: the pages under their final names are page-1 .. page-N for some N >= 0:
\* where page-i is present, every page before it is present, at every point of
\* every run, whether it returns, fails, is aborted on a budget or is killed.
C11_GapFreePrefix ==
    \A i \in PageIndices :
        api_dir[i].exists => \A j \in 1..(i - 1) : api_dir[j].exists

\* a second run was aborted on the budget of the whole run with pages 1 and 2
\* stored and no page 3
C11_AbortedWithTwoPages ==
    /\ pc = "raised"
    /\ raised.type = "SlowDownloadError"
    /\ runs = 2
    /\ api_dir[1].exists
    /\ api_dir[2].exists
    /\ ~api_dir[3].exists

\* C12: the step that raises for an exceeded budget, of one request or of the whole
\* run, ends the call in the raised state with every file under a final name as it
\* was; nothing of that call follows (the next step is a new call, which finds the
\* files as they were), and a call that returns has raised nothing.
C12_BudgetAbortKeepsArtifacts ==
    [][/\ (raised'.type = "SlowDownloadError" /\ raised.type # "SlowDownloadError") =>
             /\ pc' = "raised"
             /\ api_dir' = api_dir
             /\ html_dir' = html_dir
       /\ (pc = "raised" /\ raised.type = "SlowDownloadError") =>
             /\ pc' = "loop"
             /\ runs' = runs + 1
             /\ api_dir' = api_dir
             /\ html_dir' = html_dir
       /\ pc' = "returned" => raised' = NoException]_vars

\* the request for a document took too long: the call has raised and page 1 is
\* still stored whole
C12_SlowDocumentKeepsPage ==
    /\ pc = "raised"
    /\ raised.type = "SlowDownloadError"
    /\ raised.at = "request"
    /\ caller = "doc"
    /\ api_dir[1] = FullText(ServerBody(feed, build_api_url(0, PAGE_SIZE)))

\* C13: when the loop goes on to the next page (it stands before the look into the
\* cache for page i+1), the step before was a sleep of the page window if page i
\* came from the network, and no sleep if page i came from the cache; a sleep of
\* the page window occurs nowhere else.
C13_PageRateLimit ==
    /\ (pc = "loop" /\ api_pages >= 1) =>
          IF api_fetched
          THEN nap.kind = "page" /\ InWindow(nap.tenths, api_sleep)
          ELSE nap = NoNap
    /\ nap.kind = "page" => (pc = "loop" /\ api_fetched)

\* page 1 came from the cache without a sleep, page 2 from the network, and the
\* sleep before page 3 is done
C13_SleptAfterFetchedPage ==
    /\ pc = "loop"
    /\ api_pages = 2
    /\ cached_at_start = {1}
    /\ net_pages[1] = 0
    /\ net_pages[2] = 1
    /\ nap.kind = "page"
    /\ nap.tenths = API_SLEEP_MAX

\* C14 as stated: a matched entry whose document is stored and not empty causes no
\* request and no sleep; any other matched entry causes one call of fetch_text,
\* and the body that call returns is written under the sanitized id and followed
\* by a sleep of the document window.
C14_EveryFetchedBodyIsStored ==
    [][/\ (pc = "entry" /\ pc' # "killed") =>
             LET e       == entries[idx]
                 file    == html_dir[sanitize_id(e.arxiv_id)]
                 matched == /\ e.arxiv_id \notin seen_ids
                            /\ author_matches(FirstName, LastName, e.authors)
             IN  matched =>
                    IF file.exists /\ file.bytes # 0
                    THEN /\ doc_requests' = doc_requests
                         /\ pc' \in {"entry", "advance"}
                    ELSE /\ doc_requests' = [doc_requests EXCEPT ![e.arxiv_id] = 1]
                         /\ pc' = "attempt"
                         /\ caller' = "doc"
                         /\ url' = abs_url(e.arxiv_id)
       /\ (pc = "fetched" /\ caller = "doc" /\ pc' # "killed") => pc' \in InSafeWrite
       /\ (pc = "w_rename" /\ caller = "doc" /\ pc' # "killed") =>
             /\ html_dir' = [html_dir EXCEPT ![DocKey] = body]
             /\ pc' = "doc_sleep"
       /\ (pc = "doc_sleep" /\ pc' # "killed") =>
             (nap'.kind = "doc" /\ InWindow(nap'.tenths, html_sleep))
       /\ nap'.kind = "doc" => pc = "doc_sleep"]_vars

\* C14, amended: a matched entry whose document is stored and not empty causes no
\* request and no sleep; any other matched entry causes one call of fetch_text;
\* when that call returns within the budget of a request, its body is written
\* under the sanitized id and a sleep of the document window follows, and a sleep
\* of the document window occurs nowhere else.
C14_DocumentFetchedOnce ==
    [][/\ (pc = "entry" /\ pc' # "killed") =>
             LET e       == entries[idx]
                 file    == html_dir[sanitize_id(e.arxiv_id)]
                 matched == /\ e.arxiv_id \notin seen_ids
                            /\ author_matches(FirstName, LastName, e.authors)
             IN  matched =>
                    IF file.exists /\ file.bytes # 0
                    THEN /\ doc_requests' = doc_requests
                         /\ pc' \in {"entry", "advance"}
                    ELSE /\ doc_requests' = [doc_requests EXCEPT ![e.arxiv_id] = 1]
                         /\ pc' = "attempt"
                         /\ caller' = "doc"
                         /\ url' = abs_url(e.arxiv_id)
       /\ (/\ pc = "fetched"
           /\ caller = "doc"
           /\ pc' # "killed"
           /\ (max_request_seconds = 0 \/ busy + SumSeq(slept) <= max_request_seconds)) =>
             pc' \in InSafeWrite
       /\ (pc = "w_rename" /\ caller = "doc" /\ pc' # "killed") =>
             /\ html_dir' = [html_dir EXCEPT ![DocKey] = body]
             /\ pc' = "doc_sleep"
       /\ (pc = "doc_sleep" /\ pc' # "killed") =>
             (nap'.kind = "doc" /\ InWindow(nap'.tenths, html_sleep))
       /\ nap'.kind = "doc" => pc = "doc_sleep"]_vars

\* the document of the entry with a "/" in its id was fetched, stored whole under
\* the sanitized id, and the sleep after it is done
C14_DocumentStoredThenSlept ==
    /\ nap.kind = "doc"
    /\ nap.tenths = HTML_SLEEP_MIN
    /\ doc_requests[FeedEntry(EntryQ).arxiv_id] = 1
    /\ html_dir[sanitize_id(FeedEntry(EntryQ).arxiv_id)]
          = FullText(Html(FeedEntry(EntryQ).arxiv_id))

\* C15 as stated: no request goes out unless a sleep was made since the request
\* before it.
C15_SleepBeforeEveryRequest ==
    pc = "attempt" => unrested = "none"

\* C15, amended: a request goes out without a sleep since the request before it
\* only when it is the first attempt for a document and the request before it was
\* the one that fetched the page of that document; every other request, and every
\* retry, comes after a sleep.
C15_SleepBetweenRequests ==
    (pc = "attempt" /\ unrested # "none") =>
        /\ caller = "doc"
        /\ unrested = "page"
        /\ tries = 0
        /\ api_fetched

\* page 2 was fetched, its first entry is not of the author, and the document of
\* its second entry is about to be requested with no sleep since the page request
C15_DocumentRightAfterPage ==
    /\ pc = "attempt"
    /\ caller = "doc"
    /\ tries = 0
    /\ unrested = "page"
    /\ api_pages = 2
    /\ idx = 2

DavidSilver == [first |-> David, last |-> Silver]

\* a name's tokens end or begin with the last-name tokens, token for token
LastNameAtAnEnd(name, last_name) ==
    LET tokens      == normalize_tokens(name)
        last_tokens == normalize_tokens(last_name)
        n           == Len(tokens)
        k           == Len(last_tokens)
    IN  /\ k >= 1
        /\ n > k
        /\ \/ \A i \in 1..k : tokens[n - k + i] = last_tokens[i]
           \/ \A i \in 1..k : tokens[i] = last_tokens[i]

\* C16: for the target David Silver the matchers accept "David Silver", "D. Silver"
\* and "Silver, David" and reject "Dan Silverman"; whatever the target, a name that
\* a matcher accepts has the last-name tokens as its last or its first whole tokens,
\* so a last name that only begins a longer token is never accepted.
C16_LastNameWholeTokens ==
    pc = "matched" =>
        /\ (/\ target = DavidSilver
            /\ full_name \in {Join(<<David, Silver>>, <<" ">>),
                               Join(<< <<"D">>, Silver >>, <<".", " ">>),
                               Join(<<Silver, David>>, <<",", " ">>)})
              => verdict.crawl /\ verdict.tracked /\ verdict.silver
        /\ (/\ target = DavidSilver
            /\ full_name = Join(<< <<"D", "a", "n">>, Silver \o <<"m", "a", "n">> >>, <<" ">>))
              => ~verdict.crawl /\ ~verdict.tracked /\ ~verdict.silver
        /\ (verdict.crawl \/ verdict.tracked) => LastNameAtAnEnd(full_name, target.last)
        /\ verdict.silver => LastNameAtAnEnd(full_name, Silver)

C16_SurnameFirstAccepted ==
    /\ pc = "matched"
    /\ target = DavidSilver
    /\ full_name = Join(<<Silver, David>>, <<",", " ">>)
    /\ verdict.crawl
    /\ verdict.silver

\* the last-name tokens are the last k tokens, or the first k tokens, of a name
EndsWithTokens(tokens, last_tokens) ==
    LET n == Len(tokens)
        k == Len(last_tokens)
    IN  n >= k /\ \A i \in 1..k : tokens[n - k + i] = last_tokens[i]

BeginsWithTokens(tokens, last_tokens) ==
    Len(tokens) >= Len(last_tokens) /\ \A i \in 1..Len(last_tokens) : tokens[i] = last_tokens[i]

\* the token equals the first given name, is a prefix of it, or is its initial
IsGivenOrPrefixOfIt(token, first) ==
    \/ token = first
    \/ Len(token) <= Len(first) /\ \A i \in 1..Len(token) : token[i] = first[i]
    \/ token = <<first[1]>>

\* the token equals the first given name, begins with it, or is its initial
IsGivenOrBeginsWithIt(token, first) ==
    \/ token = first
    \/ Len(first) <= Len(token) /\ \A i \in 1..Len(first) : token[i] = first[i]
    \/ token = <<first[1]>>

\* C17 as stated: when the name's trailing tokens equal the last-name tokens, the
\* match succeeds exactly when the token right before them equals the target's first
\* given-name token, is a prefix of it, or is its initial; when the leading tokens
\* equal the last-name tokens, the same holds of the token right after them.
C17_TokenNextToLastName ==
    (pc = "matched" /\ target.first # <<>>) =>
        LET tokens      == normalize_tokens(full_name)
            last_tokens == normalize_tokens(target.last)
            first       == normalize_tokens(target.first)[1]
            n           == Len(tokens)
            k           == Len(last_tokens)
        IN  n > k =>
                IF EndsWithTokens(tokens, last_tokens)
                THEN /\ verdict.crawl <=> IsGivenOrPrefixOfIt(tokens[n - k], first)
                     /\ verdict.tracked <=> IsGivenOrPrefixOfIt(tokens[n - k], first)
                ELSE BeginsWithTokens(tokens, last_tokens) =>
                        /\ verdict.crawl <=> IsGivenOrPrefixOfIt(tokens[k + 1], first)
                        /\ verdict.tracked <=> IsGivenOrPrefixOfIt(tokens[k + 1], first)

\* C17, amended: when the name's trailing tokens equal the last-name tokens, the
\* token tested is the name's first token, and it passes when it equals the target's
\* first given-name token, begins with it, or is its initial; when the leading
\* tokens equal the last-name tokens the same test is put to the token right after
\* them: by author_name_matches_target only when the trailing tokens differ, by
\* author_matches also when they are equal and the first token did not pass.
C17_FirstTokenIsTheGivenName ==
    (pc = "matched" /\ target.first # <<>>) =>
        LET tokens      == normalize_tokens(full_name)
            last_tokens == normalize_tokens(target.last)
            first       == normalize_tokens(target.first)[1]
            n           == Len(tokens)
            k           == Len(last_tokens)
            following   == /\ BeginsWithTokens(tokens, last_tokens)
                           /\ IsGivenOrBeginsWithIt(tokens[k + 1], first)
        IN  n > k =>
                IF EndsWithTokens(tokens, last_tokens)
                THEN /\ verdict.tracked <=> IsGivenOrBeginsWithIt(tokens[1], first)
                     /\ verdict.crawl <=> (IsGivenOrBeginsWithIt(tokens[1], first) \/ following)
                ELSE /\ verdict.tracked <=> following
                     /\ verdict.crawl <=> following

C17_MiddleNameIgnored ==
    /\ pc = "matched"
    /\ target = DavidSilver
    /\ full_name = Join(<<David, <<"D", "a", "n">>, Silver>>, <<" ">>)
    /\ verdict.crawl
    /\ verdict.tracked

\* C18: for every target and every single name, author_matches over the list of
\* that one name gives what author_name_matches_target gives for the name, and for
\* the target David Silver what is_david_silver gives.
C18_SameRuleInEveryPolicy ==
    pc = "matched" =>
        /\ verdict.crawl = verdict.tracked
        /\ target = DavidSilver => verdict.crawl = verdict.silver

\* where "/abs/" occurs in a text
MarkerAt(s) == {i \in 1..(Len(s) - 4) : \A j \in 1..5 : s[i + j - 1] = AbsMarker[j]}

\* the text after the last "/abs/", after the first, and without the blanks around it
AfterLastMarker(s) ==
    IF MarkerAt(s) = {} THEN s
    ELSE SubSeq(s, (CHOOSE i \in MarkerAt(s) : \A j \in MarkerAt(s) : j <= i) + 5, Len(s))

AfterFirstMarker(s) ==
    IF MarkerAt(s) = {} THEN s
    ELSE SubSeq(s, (CHOOSE i \in MarkerAt(s) : \A j \in MarkerAt(s) : i <= j) + 5, Len(s))

Trimmed(s) ==
    LET inked == {i \in 1..Len(s) : s[i] # " "}
    IN  IF inked = {} THEN <<>>
        ELSE SubSeq(s, CHOOSE i \in inked : \A j \in inked : i <= j,
                       CHOOSE i \in inked : \A j \in inked : j <= i)

\* the lengths d of a suffix "v" and d digits of a text
VersionSuffixes(s) ==
    {d \in 1..(Len(s) - 1) :
        /\ s[Len(s) - d] = "v"
        /\ \A i \in (Len(s) - d + 1)..Len(s) : s[i] \in {"0", "1", "2", "3", "4", "5", "6", "7", "8", "9"}}

WithoutVersion(s) ==
    IF VersionSuffixes(s) = {} THEN s
    ELSE SubSeq(s, 1, Len(s) - 1 - CHOOSE d \in VersionSuffixes(s) : TRUE)

C20_PageWrittenOnce ==
    [][\A i \in PageIndices : api_dir[i].exists => api_dir'[i] = api_dir[i]]_vars

\* C20, amended: a stored page that is not empty, parses as a feed and can be read
\* is never written again, in the run that stored it or in a later one, and the
\* step to its index takes its entries from the file as it stands; a stored page
\* that is empty, does not parse or cannot be read is asked for again and replaced.
C20_UsablePageWrittenOnce ==
    [][/\ \A i \in PageIndices :
             (/\ api_dir[i].exists
              /\ api_dir[i].bytes # 0
              /\ api_dir[i].body.kind = "xml"
              /\ Complete(api_dir[i])
              /\ i \notin read_errors
              /\ i \notin read_errors')
                => /\ api_dir'[i] = api_dir[i]
                   /\ (pc = "loop" /\ api_pages' = i /\ pc' # "killed")
                         => /\ pc' = "parsed"
                            /\ entries' = FeedEntries(api_dir[i].body.entries)
                            /\ net_pages' = net_pages
       /\ \A i \in PageIndices :
             (pc = "loop" /\ api_pages' = i /\ pc' = "attempt")
                => \/ ~api_dir[i].exists
                   \/ api_dir[i].bytes = 0
                   \/ api_dir[i].body.kind # "xml"
                   \/ i \in read_errors']_vars

\* a later run has taken pages 1 and 2 from the files an earlier run stored
C20_TwoPagesReused ==
    /\ runs = 2
    /\ pc = "parsed"
    /\ api_pages = 2
    /\ cached_at_start = {1, 2}
    /\ net_pages[1] = 0
    /\ net_pages[2] = 0
    /\ api_dir[1].body.kind = "xml"
    /\ api_dir[2].body.kind = "xml"

C25_TerminationPrecedence ==
    [][/\ (pc = "parsed" /\ entries = <<>> /\ pc' # "killed") => pc' = "returned"
       /\ (/\ pc = "advance"
           /\ pc' # "killed"
           /\ total_results # 0
           /\ start + PAGE_SIZE >= total_results) => pc' = "returned"
       /\ (pc' = "raised" /\ pc # "raised" /\ raised'.at = "total")
             => /\ pc = "advance"
                /\ max_total_seconds # 0
                /\ over_total
                /\ entries # <<>>
                /\ total_results = 0 \/ start + PAGE_SIZE < total_results]_vars

\* a run came to its normal end on reaching the declared total after its budget
\* was spent
C25_ReturnedOverBudget ==
    /\ pc = "returned"
    /\ max_total_seconds # 0
    /\ over_total
    /\ total_results # 0
    /\ start >= total_results

\* C26: when fetch_text returns for a page or a document after more than the
\* maximum for one request, the run raises SlowDownloadError in that step and no
\* file changes; the page or the document it asked for is then still one a later
\* run does not find in the cache (a page whose read failed in this run aside).
C26_SlowResponseDiscarded ==
    [][(/\ pc = "fetched"
        /\ caller \in {"page", "doc"}
        /\ max_request_seconds # 0
        /\ request_elapsed > max_request_seconds
        /\ pc' # "killed")
          => /\ pc' = "raised"
             /\ raised'.type = "SlowDownloadError"
             /\ disk' = disk
             /\ (caller = "page" /\ api_pages \notin read_errors)
                   => LET file == api_dir'[api_pages]
                      IN  \/ ~file.exists
                          \/ file.bytes = 0
                          \/ file.body.kind # "xml"
             /\ caller = "doc"
                   => LET file == html_dir'[sanitize_id(url.id)]
                      IN  ~file.exists \/ file.bytes = 0]_vars

\* the request for page 2 took too long: the run is over, page 1 is stored and
\* page 2 is not
C26_SlowPageNotStored ==
    /\ pc = "raised"
    /\ raised.type = "SlowDownloadError"
    /\ raised.at = "request"
    /\ caller = "page"
    /\ api_pages = 2
    /\ api_dir[1].exists
    /\ ~api_dir[2].exists

\* C27: total_results is set only from page 1 and only to a total that is not 0,
\* so with no total on page 1 it is 0 to the end of the run, whatever the later
\* pages declare; such a run returns only from a page without entries, never from
\* the test against the total; and when page 1 itself has no entries the run returns
\* with 1 page counted and one request for a page at most.
C27_NoDeclaredTotal ==
    [][/\ total_results' # total_results
             => \/ pc' = "loop" /\ runs' = runs + 1 /\ total_results' = 0
                \/ pc' = "killed" /\ total_results' = 0
                \/ /\ pc = "parsed"
                   /\ api_pages = 1
                   /\ page_total # 0
                   /\ total_results' = page_total
       /\ (pc = "parsed" /\ api_pages > 1 /\ pc' # "killed")
             => total_results' = total_results
       /\ (pc' = "returned" /\ pc # "returned" /\ total_results' = 0)
             => /\ pc = "parsed"
                /\ entries = <<>>
                /\ api_pages = 1 => PageFetches <= 1
                /\ (api_pages = 1 /\ 1 \notin cached_at_start) => PageFetches = 1]_vars

\* a run without a declared total went through two pages with entries, whose
\* second declares a total, and returned at the third, which has none
C27_EndedOnEmptyThirdPage ==
    /\ pc = "returned"
    /\ total_results = 0
    /\ api_pages = 3
    /\ start = 2 * PAGE_SIZE
    /\ feed.total = <<"0">>

\* the ids listed under the tracked author on pages 1 to n of the server
MatchingIdsUpTo(f, n) ==
    UNION {{ServerPage(f, i)[j].arxiv_id : j \in {k \in 1..Len(ServerPage(f, i)) :
                author_matches(FirstName, LastName, ServerPage(f, i)[k].authors)}} :
           i \in 1..n}

\* C28: matched_count never exceeds the number of ids seen, and a run that returns
\* gives for matched_count the number of distinct ids on the pages it went through
\* that are listed under the tracked author, with or without a request for their
\* documents; that is the count of a run that starts with nothing stored.
C28_MatchedCount ==
    /\ matched_count <= Cardinality(seen_ids)
    /\ pc = "returned" =>
          /\ matched_count = Cardinality(MatchingIdsUpTo(feed, api_pages))
          /\ matched_count = Cardinality(MatchingIdsUpTo(feed, ColdStop(feed, 1)))

\* a second run took both pages and both documents from the disk and counted the
\* two matches again
C28_WarmRerunCountsTwo ==
    /\ runs = 2
    /\ pc = "returned"
    /\ matched_count = 2
    /\ PageFetches = 0
    /\ \A id \in ArxivIds : doc_requests[id] = 0

\* C29: when a fetched page is parsed its text is already there under the final
\* name; if it does not parse the run raises DownloadError and the file stays; a
\* run that comes to the index of such a file asks the network for that index, at
\* the offset of that index, and what it gets is put in the file's place.
C29_MalformedPageKeptThenReplaced ==
    [][/\ (pc = "parse" /\ pc' # "killed")
             => /\ api_dir[api_pages] = body
                /\ ~(body.body.kind = "xml" /\ Complete(body))
                      => /\ pc' = "raised"
                         /\ raised'.type = "DownloadError"
                         /\ disk' = disk
       /\ (/\ pc = "loop"
           /\ pc' # "killed"
           /\ api_dir[api_pages + 1].exists
           /\ api_dir[api_pages + 1].body.kind # "xml")
             => /\ pc' = "attempt"
                /\ caller' = "page"
                /\ api_pages' = api_pages + 1
                /\ url' = build_api_url(api_pages * PAGE_SIZE, PAGE_SIZE)
       /\ (pc = "w_rename" /\ caller = "page" /\ pc' # "killed")
             => /\ pc' = "parse"
                /\ api_dir'[api_pages] = body]_vars

\* a second run asks for page 1 while the malformed page 1 of the first is stored
C29_MalformedPageAskedAgain ==
    /\ runs = 2
    /\ pc = "attempt"
    /\ caller = "page"
    /\ api_pages = 1
    /\ api_dir[1].exists
    /\ api_dir[1].body.kind = "garbled"

Failures == {"check_failed", "download_failed"}

\* C22 as stated: in every batch driver the failure of an author's probe or crawl
\* is reported and the loop goes on, so a batch that has ended has dealt with every
\* author of its list.
C22_EveryAuthorDealtWith ==
    /\ pc = "done" => Len(reports) = n_authors
    /\ pc = "batch" => Len(reports) = author_index

\* C22, amended: every failure is reported; batch mode of main.py goes on to the
\* next author after it, and so does test_loop.py when STOP_ON_FAIL is off; with
\* STOP_ON_FAIL on (the default) test_loop.py ends the batch at the first failure.
C22_BatchGoesOnUnlessStopOnFail ==
    [][/\ (pc = "raised" /\ pc' # "raised")
             => /\ Len(reports') = Len(reports) + 1
                /\ reports'[Len(reports')] \in Failures
                /\ author_index' = author_index
                /\ pc' = IF driver = "test_loop" /\ stop_on_fail THEN "done" ELSE "batch"
       /\ (pc = "batch" /\ author_index < n_authors)
             => /\ author_index' = author_index + 1
                /\ pc' \in {"attempt", "loop"}
       /\ pc' = "done"
             => \/ Len(reports') = n_authors
                \/ /\ driver = "test_loop"
                   /\ stop_on_fail
                   /\ reports'[Len(reports')] = "download_failed"]_vars

\* batch mode of main.py has ended a list of two authors: the probe of the first
\* failed, the second was downloaded
C22_SecondAuthorAfterFailedProbe ==
    /\ pc = "done"
    /\ driver = "main"
    /\ n_authors = 2
    /\ reports = <<"check_failed", "downloaded">>

\* the files the HTML directory of the author in hand holds
StoredDocuments == {d \in DocNames : html_dir[d].exists}

\* C30: after a probe that returned, batch mode of main.py calls download_author
\* exactly when fewer documents are stored than the probe's total, or the total is
\* 0 and documents are stored; otherwise the author is passed over with the disk as
\* it was.  download_author is called from nowhere else, and a request for a page
\* or a document starts only inside it.
C30_CrawlOnlyWhenDocumentsMissing ==
    [][driver = "main" =>
          /\ (pc = "returned" /\ caller = "probe")
                => IF \/ Cardinality(StoredDocuments) < page_total
                      \/ page_total = 0 /\ StoredDocuments # {}
                   THEN /\ pc' = "loop"
                        /\ runs' = runs + 1
                        /\ author_index' = author_index
                   ELSE /\ pc' = "batch"
                        /\ runs' = runs
                        /\ disk' = disk
                        /\ reports' = Append(reports, "skipped")
          /\ runs' # runs => pc = "returned" /\ caller = "probe"
          /\ (caller' # caller /\ caller' \in {"page", "doc"})
                => pc \in {"loop", "entry"} /\ runs >= 1]_vars

\* the first author has as many documents stored as the probe declared and was
\* passed over without a call of download_author
C30_PassedOverWithAllDocuments ==
    /\ driver = "main"
    /\ pc = "batch"
    /\ reports = <<"skipped">>
    /\ feed.total = <<"2">>
    /\ Cardinality(StoredDocuments) = 2
    /\ runs = 0

\* the rows of the registry below its header
DataRows == 2..Len(csv_file.rows)

\* the pair of a row, compared without regard to case
PairOf(i) == <<Lower(csv_file.rows[i][1]), Lower(csv_file.rows[i][2])>>

\* C23: appending to the registry is idempotent under case-insensitive comparison
\* of (last, first): a call for a pair whose lowercase form is already in the file
\* leaves the file as it is, so after any sequence of appends no two rows of the
\* registry hold the same pair up to case.
C23_OneRowPerPair ==
    \A i, j \in DataRows : i # j => PairOf(i) # PairOf(j)

\* the places of the entries in the page files that were read and parsed
Positions ==
    UNION {{<<f, e>> : e \in 1..Len(xml_files[f].entries)} :
              f \in {k \in 1..Len(xml_files) : xml_files[k].ok}}

EntryAt(p) == xml_files[p[1]].entries[p[2]]

\* the entries the builder does not filter out
Listed == {p \in Positions : PassesFilter(builder, EntryAt(p), xml_files[p[1]].tracked)}

\* the listed entries that have a title, a year and a URL
UsablePositions == {p \in Listed : Usable(PaperOf(EntryAt(p)))}

UrlAt(p) == canonical_pdf_url_from_entry(EntryAt(p).id)

YearAt(p) == parse_year(EntryAt(p).published)

\* one place is read before another
ReadBefore(p, q) == p[1] < q[1] \/ (p[1] = q[1] /\ p[2] < q[2])

RowsOf(u) == {i \in 1..Len(rows) : rows[i].url = u}

\* rows in the order of the export: descending year, then title without regard to
\* case, then URL
InOrder(first_row, second_row) ==
    \/ first_row.year > second_row.year
    \/ /\ first_row.year = second_row.year
       /\ ~TextLess(Lower(second_row.title), Lower(first_row.title))
       /\ Lower(first_row.title) = Lower(second_row.title)
              => TextLess(first_row.url, second_row.url)

\* the page files read in another order
Orders ==
    {order \in [1..Len(xml_files) -> 1..Len(xml_files)] :
        \A i, j \in 1..Len(xml_files) : i # j => order[i] # order[j]}

Reordered(order) == [i \in 1..Len(xml_files) |-> xml_files[order[i]]]

\* C24: over all cached page files, the export of an index builder holds exactly
\* one row per canonical document URL, the row carries the earliest year seen for
\* the URL, the rows are ordered by descending year, then title, then URL, and the
\* result is the same in whatever order the page files are read.
C24_IndexIndependentOfOrder ==
    pc = "exported" =>
        LET urls == {UrlAt(p) : p \in Listed} \ {None}
        IN  /\ \A u \in urls : Cardinality(RowsOf(u)) = 1
            /\ \A i \in 1..Len(rows) :
                  /\ rows[i].url \in urls
                  /\ \A p \in Listed :
                        UrlAt(p) = rows[i].url /\ YearAt(p) # NoYear
                            => rows[i].year <= YearAt(p)
            /\ \A i, j \in 1..Len(rows) : i < j => InOrder(rows[i], rows[j])
            /\ \A order \in Orders : collect_papers(builder, Reordered(order)).rows = rows

\* C24 (amended): over the entries of the readable page files that the builder
\* lists and that have a title, a year and a URL, the export holds exactly one row
\* per canonical URL; the row carries the earliest year of the URL and the title of
\* the entry read first among those of that year; the rows are in descending year,
\* then title without regard to case, then URL; the URLs and years do not depend
\* on the order the files are read in, and the whole result does not when the
\* entries of a URL that carry its earliest year agree on the title.
C24_IndexOfUsableEntries ==
    pc = "exported" =>
        LET urls        == {UrlAt(p) : p \in UsablePositions}
            of(u)       == {p \in UsablePositions : UrlAt(p) = u}
            earliest(u) == {p \in of(u) : \A q \in of(u) : YearAt(p) <= YearAt(q)}
            first(u)    == CHOOSE p \in earliest(u) :
                               \A q \in earliest(u) : q # p => ReadBefore(p, q)
            agree       == \A u \in urls : \A p, q \in earliest(u) :
                               normalize_space(EntryAt(p).title)
                                   = normalize_space(EntryAt(q).title)
            dated(rs)   == {<<rs[i].url, rs[i].year>> : i \in 1..Len(rs)}
        IN  /\ \A u \in urls : Cardinality(RowsOf(u)) = 1
            /\ \A i \in 1..Len(rows) :
                  /\ rows[i].url \in urls
                  /\ rows[i].year = YearAt(first(rows[i].url))
                  /\ rows[i].title = normalize_space(EntryAt(first(rows[i].url)).title)
            /\ \A i, j \in 1..Len(rows) : i < j => InOrder(rows[i], rows[j])
            /\ parse_errors = Cardinality({k \in 1..Len(xml_files) : ~xml_files[k].ok})
            /\ \A order \in Orders :
                  LET other == collect_papers(builder, Reordered(order)).rows
                  IN  /\ dated(other) = dated(rows)
                      /\ agree => other = rows

\* three page files were read: one paper is listed in two of them under two years,
\* and the export holds it once, with the earlier year, below two papers of 2016
C24_ThreeRowsFromThreeFiles ==
    /\ pc = "exported"
    /\ builder = "all"
    /\ Len(xml_files) = 3
    /\ \E f, g \in 1..Len(xml_files) :
          /\ EntryGo \in Range(xml_files[f].entries)
          /\ EntryGoEarly \in Range(xml_files[g].entries)
    /\ Len(rows) = 3
    /\ rows[1].title = EntryAb.title
    /\ rows[2].title = EntryZed.title
    /\ rows[3].year = parse_year(EntryGoEarly.published)
    /\ rows[3].url = canonical_pdf_url_from_entry(EntryGo.id)

====
